---- MODULE Spec2Model ----
(***************************************************************************)
(* State-machine model of the device-side AMQP messenger                   *)
(* (iothub_client/src/iothubtransport_amqp_messenger.c).                   *)
(*                                                                         *)
(* The messenger owns one message sender (always) and one message receiver *)
(* (when subscribed) on a borrowed session, a send queue of outbound tasks *)
(* and a consecutive-send-error counter.  Every public API call and every  *)
(* callback the AMQP library makes into the messenger is one action.       *)
(*                                                                         *)
(* The message queue (message_queue.c) and is_timeout_reached are not part *)
(* of the sources at hand; they are modelled from the specification.       *)
(* The fields message_sender_previous_state and                            *)
(* message_receiver_previous_state are written by the state callbacks and  *)
(* never read; they are left out.                                          *)
(***************************************************************************)
EXTENDS Integers, Sequences, FiniteSets

\* ------------------------------------------------------------ bounds ----
\* Number of amqp_messenger_send_async calls that are accepted in one run.
MaxTasks == 3
\* The clock stops advancing at this many seconds (send path, link lifecycle).
MaxTime == 600
MaxLinkTime == 301
\* The error-cap specification: messages accepted in one run, and how many
\* of them may be enqueued at a time.
MaxErrTasks == 11
MaxErrQueue == 1

\* The option specification: messages accepted in one run, and the second at
\* which the clock stops.
MaxOptTasks == 2
MaxOptTime == 601

\* The twin specification: operation contexts created in one run, and the
\* second at which the clock stops.
MaxTwinOps == 2
MaxTwinTime == 600

\* The subscription error cap: operation contexts created in one run.
MaxCapOps == 3

\* Reported state: operation contexts created in one run.
MaxReportOps == 3

\* --------------------------------------------------- program constants ----
INDEFINITE_TIME == -1
DEFAULT_EVENT_SEND_TIMEOUT_SECS == 600
DEFAULT_MAX_SEND_ERROR_COUNT == 10
MAX_MESSAGE_SENDER_STATE_CHANGE_TIMEOUT_SECS == 300
MAX_MESSAGE_RECEIVER_STATE_CHANGE_TIMEOUT_SECS == 300
DEFAULT_MAX_TWIN_SUBSCRIPTION_ERROR_COUNT == 3

\* Seconds by which the clock may advance between two calls.
LinkTimeSteps == {300, 301}
SendTimeSteps == {300}

\* MESSAGE_SENDER_STATE / MESSAGE_RECEIVER_STATE of the AMQP library.
LinkStates == {"IDLE", "OPENING", "OPEN", "CLOSING", "ERROR"}

\* Session handles a caller may pass to amqp_messenger_start; 0 is NULL.
Sessions == {0, 1, 2}

\* Outcomes of create_message_sender / create_message_receiver.
CreateOutcomes == {"OK", "LINK_FAIL", "CREATE_FAIL", "OPEN_FAIL"}

\* What the library reported through the state-changed callback while
\* messagesender_open / messagereceiver_open ran ("NONE": no callback).
OpenReports == {"NONE", "OPENING", "ERROR"}

\* The option amqp_messenger_set_option knows.
MESSENGER_OPTION_EVENT_SEND_TIMEOUT_SECS == "amqp_event_send_timeout_secs"

\* Option names and values the caller passes, and the clock's steps there.
OptionNames == {MESSENGER_OPTION_EVENT_SEND_TIMEOUT_SECS, "other_option"}
OptionValues == {300}
OptTimeSteps == {300, 301}

VARIABLES
    instance,     \* AMQP_MESSENGER_INSTANCE
    send_queue,   \* the send queue: pending and in-progress partitions
    lib_sends,    \* ids of tasks handed to messagesender_send, completion due
    now,          \* the clock read by get_time
    next_id,      \* id given to the next accepted task (submission order)
    cb_count,     \* per task, how often its user completion callback fired
    status,       \* "created", "destroyed" (after destroy) or "aborted"
    failures,     \* history: send failures in a row, and since the last start
    last_call,    \* the last call: name, return value, callbacks it fired
    twin,         \* TWIN_MESSENGER_INSTANCE
    twin_ctx,     \* every TWIN_OPERATION_CONTEXT created, by correlation id
    twin_call     \* the last twin call: name, return value, what it issued and fired

twin_vars == <<twin, twin_ctx, twin_call>>

vars == <<instance, send_queue, lib_sends, now, next_id, cb_count, status, failures,
          last_call, twin, twin_ctx, twin_call>>

\* ------------------------------------------------------------ helpers ----
Range(s) == {s[i] : i \in 1..Len(s)}

Ids(s) == {s[i].id : i \in 1..Len(s)}

Call(op, ret, state_cbs, send_cbs) ==
    [op |-> op, ret |-> ret, state_cbs |-> state_cbs, send_cbs |-> send_cbs]

\* get_time(NULL): the clock, or INDEFINITE_TIME when the platform fails.
GetTimeResults == {now, INDEFINITE_TIME}

\* is_timeout_reached(start_time, timeout_in_secs, &is_timed_out): fails when
\* the start time is not a time; otherwise reports whether more than
\* timeout_in_secs elapsed.
is_timeout_reached(start_time, timeout_in_secs, current_time) ==
    IF start_time = INDEFINITE_TIME
    THEN [ok |-> FALSE, is_timed_out |-> FALSE]
    ELSE [ok |-> TRUE, is_timed_out |-> (current_time - start_time) > timeout_in_secs]

\* A messenger together with the state-changed callbacks fired so far in
\* the running call.
Running(inst) == [inst |-> inst, cbs |-> <<>>]

\* Mutation of update_messenger_state: the previous state is read after the
\* new one has been stored.
update_messenger_state_reading_previous_late(r, new_state) ==
    IF new_state # r.inst.state
    THEN [inst |-> [r.inst EXCEPT !.state = new_state],
          cbs  |-> Append(r.cbs, <<new_state, new_state>>)]
    ELSE r

update_messenger_state(r, new_state) ==
    IF new_state # r.inst.state
    THEN [inst |-> [r.inst EXCEPT !.state = new_state],
          cbs  |-> Append(r.cbs, <<r.inst.state, new_state>>)]
    ELSE r

destroy_message_sender(inst) ==
    LET a == IF inst.message_sender
             THEN [inst EXCEPT !.message_sender = FALSE,
                               !.message_sender_current_state = "IDLE",
                               !.last_message_sender_state_change_time = INDEFINITE_TIME]
             ELSE inst
    IN  [a EXCEPT !.sender_link = FALSE]

destroy_message_receiver(inst) ==
    LET a == IF inst.message_receiver
             THEN [inst EXCEPT !.message_receiver = FALSE,
                               !.message_receiver_current_state = "IDLE",
                               !.last_message_receiver_state_change_time = INDEFINITE_TIME]
             ELSE inst
    IN  [a EXCEPT !.receiver_link = FALSE]

\* The state callback as messagesender_open may invoke it before returning.
ReportSender(inst, report, t) ==
    IF report = "NONE" THEN inst
    ELSE [inst EXCEPT !.message_sender_current_state = report,
                      !.last_message_sender_state_change_time = t]

ReportReceiver(inst, report, t) ==
    IF report = "NONE" THEN inst
    ELSE [inst EXCEPT !.message_receiver_current_state = report,
                      !.last_message_receiver_state_change_time = t]

\* create_message_sender: [ok, inst].  On OPEN_FAIL the sender and its link
\* are destroyed again; the recorded sender state is not reset.
create_message_sender(inst, outcome, report, t) ==
    IF outcome = "LINK_FAIL" THEN [ok |-> FALSE, inst |-> inst]
    ELSE IF outcome = "CREATE_FAIL" THEN [ok |-> FALSE, inst |-> inst]
    ELSE IF outcome = "OPEN_FAIL"
         THEN [ok |-> FALSE, inst |-> ReportSender(inst, report, t)]
    ELSE [ok |-> TRUE,
          inst |-> [ReportSender(inst, report, t) EXCEPT !.sender_link = TRUE,
                                                         !.message_sender = TRUE]]

create_message_receiver(inst, outcome, report, t) ==
    IF outcome = "LINK_FAIL" THEN [ok |-> FALSE, inst |-> inst]
    ELSE IF outcome = "CREATE_FAIL" THEN [ok |-> FALSE, inst |-> inst]
    ELSE IF outcome = "OPEN_FAIL"
         THEN [ok |-> FALSE, inst |-> ReportReceiver(inst, report, t)]
    ELSE [ok |-> TRUE,
          inst |-> [ReportReceiver(inst, report, t) EXCEPT !.receiver_link = TRUE,
                                                           !.message_receiver = TRUE]]

\* Mutation of process_state_changes: while STARTING, a sender that reports
\* CLOSING is waited for instead of being an error.
process_state_changes_waiting_for_closing_sender(r, t) ==
    LET i == r.inst IN
    IF i.state = "STARTED" THEN
        IF i.message_sender_current_state # "OPEN"
        THEN update_messenger_state(r, "ERROR")
        ELSE IF i.message_receiver /\ i.message_receiver_current_state # "OPEN" THEN
            IF i.message_receiver_current_state = "OPENING" THEN
                LET c == is_timeout_reached(i.last_message_receiver_state_change_time,
                                            MAX_MESSAGE_RECEIVER_STATE_CHANGE_TIMEOUT_SECS, t)
                IN  IF ~c.ok THEN update_messenger_state(r, "ERROR")
                    ELSE IF c.is_timed_out THEN update_messenger_state(r, "ERROR")
                    ELSE r
            ELSE IF i.message_receiver_current_state \in {"ERROR", "IDLE"}
                 THEN update_messenger_state(r, "ERROR")
            ELSE r
        ELSE r
    ELSE IF i.state = "STARTING" THEN
        IF i.message_sender_current_state = "OPEN"
        THEN update_messenger_state(r, "STARTED")
        ELSE IF i.message_sender_current_state = "OPENING" THEN
            LET c == is_timeout_reached(i.last_message_sender_state_change_time,
                                        MAX_MESSAGE_SENDER_STATE_CHANGE_TIMEOUT_SECS, t)
            IN  IF ~c.ok THEN update_messenger_state(r, "ERROR")
                ELSE IF c.is_timed_out THEN update_messenger_state(r, "ERROR")
                ELSE r
        ELSE IF \/ i.message_sender_current_state = "ERROR"
                \/ (i.message_sender_current_state = "IDLE" /\ i.message_sender)
             THEN update_messenger_state(r, "ERROR")
        ELSE r
    ELSE r

\* Mutation of process_state_changes: while STARTED, a receiver that exists
\* and reports IDLE is waited for instead of being an error.
process_state_changes_waiting_for_idle_receiver(r, t) ==
    LET i == r.inst IN
    IF i.state = "STARTED" THEN
        IF i.message_sender_current_state # "OPEN"
        THEN update_messenger_state(r, "ERROR")
        ELSE IF i.message_receiver /\ i.message_receiver_current_state # "OPEN" THEN
            IF i.message_receiver_current_state = "OPENING" THEN
                LET c == is_timeout_reached(i.last_message_receiver_state_change_time,
                                            MAX_MESSAGE_RECEIVER_STATE_CHANGE_TIMEOUT_SECS, t)
                IN  IF ~c.ok THEN update_messenger_state(r, "ERROR")
                    ELSE IF c.is_timed_out THEN update_messenger_state(r, "ERROR")
                    ELSE r
            ELSE IF i.message_receiver_current_state = "ERROR"
                 THEN update_messenger_state(r, "ERROR")
            ELSE r
        ELSE r
    ELSE IF i.state = "STARTING" THEN
        IF i.message_sender_current_state = "OPEN"
        THEN update_messenger_state(r, "STARTED")
        ELSE IF i.message_sender_current_state = "OPENING" THEN
            LET c == is_timeout_reached(i.last_message_sender_state_change_time,
                                        MAX_MESSAGE_SENDER_STATE_CHANGE_TIMEOUT_SECS, t)
            IN  IF ~c.ok THEN update_messenger_state(r, "ERROR")
                ELSE IF c.is_timed_out THEN update_messenger_state(r, "ERROR")
                ELSE r
        ELSE IF \/ i.message_sender_current_state = "ERROR"
                \/ i.message_sender_current_state = "CLOSING"
                \/ (i.message_sender_current_state = "IDLE" /\ i.message_sender)
             THEN update_messenger_state(r, "ERROR")
        ELSE r
    ELSE r

\* Sets the messenger state from the states the sender and the receiver
\* last reported.
process_state_changes(r, t) ==
    LET i == r.inst IN
    IF i.state = "STARTED" THEN
        IF i.message_sender_current_state # "OPEN"
        THEN update_messenger_state(r, "ERROR")
        ELSE IF i.message_receiver /\ i.message_receiver_current_state # "OPEN" THEN
            IF i.message_receiver_current_state = "OPENING" THEN
                LET c == is_timeout_reached(i.last_message_receiver_state_change_time,
                                            MAX_MESSAGE_RECEIVER_STATE_CHANGE_TIMEOUT_SECS, t)
                IN  IF ~c.ok THEN update_messenger_state(r, "ERROR")
                    ELSE IF c.is_timed_out THEN update_messenger_state(r, "ERROR")
                    ELSE r
            ELSE IF i.message_receiver_current_state \in {"ERROR", "IDLE"}
                 THEN update_messenger_state(r, "ERROR")
            ELSE r
        ELSE r
    ELSE IF i.state = "STARTING" THEN
        IF i.message_sender_current_state = "OPEN"
        THEN update_messenger_state(r, "STARTED")
        ELSE IF i.message_sender_current_state = "OPENING" THEN
            LET c == is_timeout_reached(i.last_message_sender_state_change_time,
                                        MAX_MESSAGE_SENDER_STATE_CHANGE_TIMEOUT_SECS, t)
            IN  IF ~c.ok THEN update_messenger_state(r, "ERROR")
                ELSE IF c.is_timed_out THEN update_messenger_state(r, "ERROR")
                ELSE r
        ELSE IF \/ i.message_sender_current_state = "ERROR"
                \/ i.message_sender_current_state = "CLOSING"
                \/ (i.message_sender_current_state = "IDLE" /\ i.message_sender)
             THEN update_messenger_state(r, "ERROR")
        ELSE r
    ELSE r

\* ---------------------------------------------------------- send queue ----
\* A task: its id (submission order), the time it was enqueued, and the
\* is_destroyed flag of its MESSAGE_SEND_CONTEXT.
Task(id, t) == [id |-> id, enqueue_time |-> t, is_destroyed |-> FALSE]

EmptyQueue ==
    [pending |-> <<>>, in_progress |-> <<>>,
     max_message_enqueued_time_secs |-> DEFAULT_EVENT_SEND_TIMEOUT_SECS]

message_queue_add(q, task) ==
    [q EXCEPT !.pending = Append(q.pending, task)]

message_queue_is_empty(q) ==
    Len(q.pending) = 0 /\ Len(q.in_progress) = 0

\* All in-progress tasks go back to the head of pending, order kept.
message_queue_move_all_back_to_pending(q) ==
    [q EXCEPT !.pending = q.in_progress \o q.pending, !.in_progress = <<>>]

IsTimedOut(q, task, t) ==
    /\ q.max_message_enqueued_time_secs > 0
    /\ t - task.enqueue_time >= q.max_message_enqueued_time_secs

\* on_process_message_callback: the task's message is handed to
\* messagesender_send and then destroyed, is_destroyed is set.
on_process_message_callback(task) ==
    [task EXCEPT !.is_destroyed = TRUE]

\* One tick of the queue: tasks past their enqueue age complete with
\* TIMEOUT, every pending task is dispatched; a task whose
\* messagesender_send fails (id in fails) completes with ERROR at once.
\* Returns the queue, the completions in order, and the ids sent.
message_queue_do_work(q, t, fails) ==
    LET old(task)  == IsTimedOut(q, task, t)
        live(task) == ~IsTimedOut(q, task, t)
        bad(task)  == task.id \in fails
        good(task) == task.id \notin fails
        topend == SelectSeq(q.pending, old)
        toprog == SelectSeq(q.in_progress, old)
        pend   == SelectSeq(q.pending, live)
        prog   == SelectSeq(q.in_progress, live)
        failed == SelectSeq(pend, bad)
        sent   == SelectSeq(pend, good)
        moved  == [k \in 1..Len(sent) |-> on_process_message_callback(sent[k])]
        expired == topend \o toprog
    IN  [queue |-> [q EXCEPT !.pending = <<>>, !.in_progress = prog \o moved],
         comps |-> [k \in 1..Len(expired) |->
                        [id |-> expired[k].id, mq |-> "MESSAGE_QUEUE_TIMEOUT"]]
                   \o [k \in 1..Len(failed) |->
                        [id |-> failed[k].id, mq |-> "MESSAGE_QUEUE_ERROR"]],
         sent |-> Ids(sent),
         resent |-> {sent[k].id : k \in {j \in 1..Len(sent) : sent[j].is_destroyed}}]

\* message_queue_set_max_message_enqueued_time_secs: stores the limit and
\* returns 0, or fails with a non-zero value and stores nothing.
message_queue_set_max_message_enqueued_time_secs(q, seconds, setter_ok) ==
    IF setter_ok
    THEN [rc |-> 0, queue |-> [q EXCEPT !.max_message_enqueued_time_secs = seconds]]
    ELSE [rc |-> 1, queue |-> q]

\* message_queue_destroy: every task still enqueued completes with CANCELLED.
message_queue_destroy(q) ==
    LET all == q.in_progress \o q.pending
    IN  [k \in 1..Len(all) |-> [id |-> all[k].id, mq |-> "MESSAGE_QUEUE_CANCELLED"]]

\* The queue result on_send_complete_callback derives from the library's
\* send result.
MqResultOf(send_result) ==
    IF send_result = "MESSAGE_SEND_OK" THEN "MESSAGE_QUEUE_SUCCESS"
    ELSE "MESSAGE_QUEUE_ERROR"

\* Mutation of on_message_processing_completed_callback: a cancelled task is
\* reported as CANCELLED whatever the messenger state.
completed_callback_ignoring_messenger_state(result, messenger_state) ==
    IF result = "MESSAGE_QUEUE_SUCCESS"
    THEN [result |-> "SUCCESS", reason |-> "NONE", err |-> 0]
    ELSE IF result = "MESSAGE_QUEUE_TIMEOUT"
    THEN [result |-> "ERROR", reason |-> "TIMEOUT", err |-> 0]
    ELSE IF result = "MESSAGE_QUEUE_CANCELLED"
    THEN [result |-> "CANCELLED", reason |-> "MESSENGER_DESTROYED", err |-> 0]
    ELSE [result |-> "ERROR", reason |-> "FAIL_SENDING", err |-> 1]

\* on_message_processing_completed_callback: the result and reason given to
\* the user callback, and the increment of send_error_count.
on_message_processing_completed_callback(result, messenger_state) ==
    IF result = "MESSAGE_QUEUE_SUCCESS"
    THEN [result |-> "SUCCESS", reason |-> "NONE", err |-> 0]
    ELSE IF result = "MESSAGE_QUEUE_TIMEOUT"
    THEN [result |-> "ERROR", reason |-> "TIMEOUT", err |-> 0]
    ELSE IF result = "MESSAGE_QUEUE_CANCELLED" /\ messenger_state = "STOPPED"
    THEN [result |-> "CANCELLED", reason |-> "MESSENGER_DESTROYED", err |-> 0]
    ELSE [result |-> "ERROR", reason |-> "FAIL_SENDING", err |-> 1]

\* The user callbacks fired for a sequence of completions; the messenger
\* state does not change while a batch completes.
Fired(comps, messenger_state) ==
    [k \in 1..Len(comps) |->
        LET o == on_message_processing_completed_callback(comps[k].mq, messenger_state)
        IN  [id |-> comps[k].id, mq |-> comps[k].mq, state |-> messenger_state,
             result |-> o.result, reason |-> o.reason, err |-> o.err]]

ErrorsIn(fired) == Cardinality({k \in 1..Len(fired) : fired[k].err = 1})

Counted(counts, fired) ==
    [t \in DOMAIN counts |->
        counts[t] + Cardinality({k \in 1..Len(fired) : fired[k].id = t})]

\* The failure history after a sequence of user callbacks: a success ends a
\* row of failures, a send failure extends it.
RECURSIVE Noted(_, _)
Noted(f, fired) ==
    IF fired = <<>> THEN f
    ELSE LET h == Head(fired)
             g == IF h.result = "SUCCESS" THEN [f EXCEPT !.streak = 0]
                  ELSE IF h.reason = "FAIL_SENDING"
                  THEN [streak |-> f.streak + 1, since_start |-> f.since_start + 1]
                  ELSE f
         IN  Noted(g, Tail(fired))

\* What amqp_messenger_send_async does to the queue q when id is the next
\* task id and counts the callback counters: [ret, queue, next_id, counts].
SendAsyncOn(q, id, counts, alloc_ok) ==
    IF alloc_ok
    THEN [ret |-> "OK", queue |-> message_queue_add(q, Task(id, now)),
          next_id |-> id + 1, counts |-> Append(counts, 0)]
    ELSE [ret |-> "FAILURE", queue |-> q, next_id |-> id, counts |-> counts]

\* ------------------------------------------------------ twin messenger ----
\* twin_messenger_create: the twin messenger over a new AMQP messenger.
\* operations holds the correlation ids of the contexts in the list.
TwinCreated ==
    [state |-> "STOPPED",
     subscription_state |-> "NOT_SUBSCRIBED",
     subscription_error_count |-> 0,
     on_message_received_callback |-> FALSE,
     operations |-> <<>>]

\* What a twin call did: the requests it handed to amqp_messenger_send_async,
\* the delta (twin state update) callbacks, the report-state callbacks and
\* the twin state callbacks it fired, and the disposition it returned.
TwinCall(op, ret) ==
    [op |-> op, ret |-> ret, requests |-> <<>>, delta_cbs |-> <<>>,
     report_cbs |-> <<>>, state_cbs |-> <<>>, disposition |-> "NONE"]

\* A twin messenger and its operation contexts in a running call, with what
\* the call has issued and fired so far.
TwinRunning(tw, ctx) ==
    [twin |-> tw, ctx |-> ctx, requests |-> <<>>, delta_cbs |-> <<>>,
     report_cbs |-> <<>>, state_cbs |-> <<>>]

update_state(tr, new_state) ==
    IF new_state # tr.twin.state
    THEN [tr EXCEPT !.twin.state = new_state,
                    !.state_cbs = Append(@, <<tr.twin.state, new_state>>)]
    ELSE tr

\* Mutation of get_twin_state_from: STARTING is not among the states that
\* map to themselves.
get_twin_state_from_without_starting(amqp_messenger_state) ==
    IF amqp_messenger_state \in {"STOPPED", "STOPPING", "STARTED"}
    THEN amqp_messenger_state
    ELSE "ERROR"

get_twin_state_from(amqp_messenger_state) ==
    IF amqp_messenger_state \in {"STOPPED", "STOPPING", "STARTED", "STARTING"}
    THEN amqp_messenger_state
    ELSE "ERROR"

\* Mutation of on_amqp_messenger_state_changed_callback: the image of the
\* previous state is taken.
state_changed_callback_with_previous_state(tr, previous_state, new_state) ==
    IF new_state # previous_state
    THEN update_state(tr, get_twin_state_from(previous_state))
    ELSE tr

on_amqp_messenger_state_changed_callback(tr, previous_state, new_state) ==
    IF new_state # previous_state
    THEN update_state(tr, get_twin_state_from(new_state))
    ELSE tr

\* The state callbacks the AMQP messenger fired in one call, in order.
RECURSIVE StateChanges(_, _)
StateChanges(tr, cbs) ==
    IF cbs = <<>> THEN tr
    ELSE StateChanges(
             on_amqp_messenger_state_changed_callback(tr, Head(cbs)[1], Head(cbs)[2]),
             Tail(cbs))

\* create_twin_operation_context: the new context gets the next correlation
\* id; task is the AMQP task that carries its request (0: none yet), frees
\* counts the calls of destroy_twin_operation_context on it, and sent tells
\* whether the request was handed to messagesender_send, so that the cloud
\* knows its correlation id.
create_twin_operation_context(ctx, type) ==
    Append(ctx, [type |-> type, task |-> 0, frees |-> 0, sent |-> FALSE])

destroy_twin_operation_context(ctx, c) ==
    [ctx EXCEPT ![c].frees = @ + 1]

add_twin_operation_context_to_queue(tw, c) ==
    [tw EXCEPT !.operations = Append(@, c)]

remove_twin_operation_context_from_queue(tw, c) ==
    LET other(d) == d # c
    IN  [tw EXCEPT !.operations = SelectSeq(@, other)]

\* The context that was given to amqp_messenger_send_async with task id
\* (0: the task was not sent by the twin messenger).
CtxOfTask(ctx, id) ==
    IF \E c \in 1..Len(ctx) : ctx[c].task = id
    THEN CHOOSE c \in 1..Len(ctx) : ctx[c].task = id
    ELSE 0

\* Mutation of on_amqp_send_complete_callback: a failed send of a GET does
\* not roll the subscription back.
on_amqp_send_complete_callback_without_rollback(tr, result, reason, c) ==
    IF result = "SUCCESS" THEN tr
    ELSE LET t1 == IF tr.ctx[c].type = "PATCH"
                   THEN [tr EXCEPT !.report_cbs =
                            Append(@, [c |-> c, result |-> "ERROR", reason |-> "NONE",
                                       status_code |-> 0])]
                   ELSE tr
         IN  [t1 EXCEPT !.twin = remove_twin_operation_context_from_queue(@, c),
                        !.ctx = destroy_twin_operation_context(@, c)]

\* on_amqp_send_complete_callback(result, reason, context) with the context
\* of correlation id c.
on_amqp_send_complete_callback(tr, result, reason, c) ==
    IF result = "SUCCESS" THEN tr
    ELSE LET op == tr.ctx[c]
             sub == tr.twin.subscription_state
             t1 == IF op.type = "PATCH"
                   THEN [tr EXCEPT !.report_cbs =
                            Append(@, [c |-> c, result |-> "ERROR", reason |-> "NONE",
                                       status_code |-> 0])]
                   ELSE IF reason # "MESSENGER_DESTROYED"
                   THEN IF \/ op.type = "GET" /\ sub = "GETTING_COMPLETE_PROPERTIES"
                           \/ op.type = "PUT" /\ sub = "GETTING_COMPLETE_PROPERTIES"
                        THEN [tr EXCEPT
                                 !.twin.subscription_state = "GET_COMPLETE_PROPERTIES",
                                 !.twin.subscription_error_count = @ + 1]
                        ELSE tr
                   ELSE tr
         IN  [t1 EXCEPT !.twin = remove_twin_operation_context_from_queue(@, c),
                        !.ctx = destroy_twin_operation_context(@, c)]

\* The send completions the AMQP messenger fired in one call, in order.
RECURSIVE SendCompletions(_, _)
SendCompletions(tr, fired) ==
    IF fired = <<>> THEN tr
    ELSE LET h == Head(fired)
             c == CtxOfTask(tr.ctx, h.id)
         IN  SendCompletions(
                 IF c = 0 THEN tr
                 ELSE on_amqp_send_complete_callback(tr, h.result, h.reason, c),
                 Tail(fired))

\* A completion that is not a success reads its context; the context was
\* destroyed before when its response had arrived first.
ReadsFreedContext(ctx, fired) ==
    \E k \in 1..Len(fired) :
        /\ fired[k].result # "SUCCESS"
        /\ CtxOfTask(ctx, fired[k].id) # 0
        /\ ctx[CtxOfTask(ctx, fired[k].id)].frees > 0

\* send_twin_operation_request on the send queue q: [ret, queue, next_id,
\* counts, ctx].  alloc_ok: create_amqp_message_for_twin_operation and
\* amqp_messenger_send_async worked.
send_twin_operation_request(ctx, c, q, id, counts, alloc_ok) ==
    LET s == SendAsyncOn(q, id, counts, alloc_ok)
    IN  [ret |-> s.ret, queue |-> s.queue, next_id |-> s.next_id, counts |-> s.counts,
         ctx |-> IF s.ret = "OK" THEN [ctx EXCEPT ![c].task = id] ELSE ctx]

\* Mutation of the request table of process_twin_subscription: a GET that is
\* waited for is issued again.
request_for_getting_again(subscription_state) ==
    IF subscription_state = "GET_COMPLETE_PROPERTIES"
    THEN [op_type |-> "GET", next_subscription_state |-> "GETTING_COMPLETE_PROPERTIES"]
    ELSE IF subscription_state = "GETTING_COMPLETE_PROPERTIES"
    THEN [op_type |-> "GET", next_subscription_state |-> "GET_COMPLETE_PROPERTIES"]
    ELSE IF subscription_state = "SUBSCRIBE_FOR_UPDATES"
    THEN [op_type |-> "PUT", next_subscription_state |-> "SUBSCRIBING"]
    ELSE IF subscription_state = "UNSUBSCRIBE"
    THEN [op_type |-> "PUT", next_subscription_state |-> "UNSUBSCRIBING"]
    ELSE [op_type |-> "PATCH", next_subscription_state |-> subscription_state]

\* The request process_twin_subscription chooses in a subscription state:
\* its operation type and the state that waits for its response.
RequestFor(subscription_state) ==
    IF subscription_state = "GET_COMPLETE_PROPERTIES"
    THEN [op_type |-> "GET", next_subscription_state |-> "GETTING_COMPLETE_PROPERTIES"]
    ELSE IF subscription_state = "SUBSCRIBE_FOR_UPDATES"
    THEN [op_type |-> "PUT", next_subscription_state |-> "SUBSCRIBING"]
    ELSE IF subscription_state = "UNSUBSCRIBE"
    THEN [op_type |-> "PUT", next_subscription_state |-> "UNSUBSCRIBING"]
    ELSE [op_type |-> "PATCH", next_subscription_state |-> subscription_state]

\* process_twin_subscription below its test of the error count: [tr, queue,
\* next_id, counts].  ctx_ok: create_twin_operation_context worked; add_ok:
\* add_twin_operation_context_to_queue worked.
IssueRequest(tr, q, id, counts, ctx_ok, add_ok, alloc_ok) ==
    LET tw == tr.twin
        same(t) == [tr |-> t, queue |-> q, next_id |-> id, counts |-> counts]
        op_type == RequestFor(tw.subscription_state).op_type
        next_subscription_state ==
            RequestFor(tw.subscription_state).next_subscription_state
    IN  IF next_subscription_state = tw.subscription_state THEN same(tr)
        ELSE IF ~ctx_ok THEN same(update_state(tr, "ERROR"))
        ELSE LET c  == Len(tr.ctx) + 1
                 x1 == create_twin_operation_context(tr.ctx, op_type)
             IN  IF ~add_ok
                 THEN same(update_state(
                               [tr EXCEPT !.ctx = destroy_twin_operation_context(x1, c)],
                               "ERROR"))
                 ELSE LET s == send_twin_operation_request(x1, c, q, id, counts, alloc_ok)
                      IN  IF s.ret # "OK"
                          THEN same(update_state(
                                   [tr EXCEPT
                                       !.ctx = destroy_twin_operation_context(s.ctx, c),
                                       !.requests = Append(@, [type |-> op_type,
                                                               accepted |-> FALSE])],
                                   "ERROR"))
                          ELSE [tr |-> [tr EXCEPT
                                          !.twin = [add_twin_operation_context_to_queue(tw, c)
                                                      EXCEPT !.subscription_state =
                                                                 next_subscription_state],
                                          !.ctx = s.ctx,
                                          !.requests = Append(@, [type |-> op_type,
                                                                  accepted |-> TRUE])],
                                queue |-> s.queue, next_id |-> s.next_id,
                                counts |-> s.counts]

\* Mutation of process_twin_subscription: the error count is not looked at.
process_twin_subscription_without_cap(tr, q, id, counts, ctx_ok, add_ok, alloc_ok) ==
    IssueRequest(tr, q, id, counts, ctx_ok, add_ok, alloc_ok)

\* process_twin_subscription: [tr, queue, next_id, counts].
process_twin_subscription(tr, q, id, counts, ctx_ok, add_ok, alloc_ok) ==
    IF tr.twin.subscription_error_count >= DEFAULT_MAX_TWIN_SUBSCRIPTION_ERROR_COUNT
    THEN [tr |-> update_state(tr, "ERROR"), queue |-> q, next_id |-> id,
          counts |-> counts]
    ELSE IssueRequest(tr, q, id, counts, ctx_ok, add_ok, alloc_ok)

\* --------------------------------------------------------------- Init ----
\* amqp_messenger_create, and twin_messenger_create over it
Init ==
    /\ instance = [state |-> "STOPPED",
                   session_handle |-> 0,
                   receive_messages |-> FALSE,
                   on_message_received_callback |-> FALSE,
                   sender_link |-> FALSE,
                   message_sender |-> FALSE,
                   message_sender_current_state |-> "IDLE",
                   last_message_sender_state_change_time |-> INDEFINITE_TIME,
                   receiver_link |-> FALSE,
                   message_receiver |-> FALSE,
                   message_receiver_current_state |-> "IDLE",
                   last_message_receiver_state_change_time |-> INDEFINITE_TIME,
                   send_error_count |-> 0,
                   max_send_error_count |-> DEFAULT_MAX_SEND_ERROR_COUNT]
    /\ send_queue = EmptyQueue
    /\ lib_sends = {}
    /\ now = 0
    /\ next_id = 1
    /\ cb_count = <<>>
    /\ status = "created"
    /\ failures = [streak |-> 0, since_start |-> 0]
    /\ last_call = Call("create", "OK", <<>>, <<>>)
    /\ twin = TwinCreated
    /\ twin_ctx = <<>>
    /\ twin_call = TwinCall("create", "OK")

\* ------------------------------------------------------------ actions ----
QueueLen == Len(send_queue.pending) + Len(send_queue.in_progress)

\* Mutation of amqp_messenger_start: a messenger in ERROR is started again.
start_from_error(session_handle) ==
    /\ status = "created"
    /\ IF session_handle = 0 \/ instance.state \notin {"STOPPED", "ERROR"}
       THEN /\ last_call' = Call("start", "FAILURE", <<>>, <<>>)
            /\ UNCHANGED <<instance, failures>>
       ELSE LET r == update_messenger_state(
                        Running([instance EXCEPT !.session_handle = session_handle]),
                        "STARTING")
            IN  /\ instance' = r.inst
                /\ failures' = [failures EXCEPT !.since_start = 0]
                /\ last_call' = Call("start", "OK", r.cbs, <<>>)
    /\ UNCHANGED <<send_queue, lib_sends, now, next_id, cb_count, status>>

\* Mutation of amqp_messenger_start: the session is stored before the state
\* is looked at.
start_storing_session_first(session_handle) ==
    /\ status = "created"
    /\ IF session_handle = 0
       THEN /\ last_call' = Call("start", "FAILURE", <<>>, <<>>)
            /\ UNCHANGED <<instance, failures>>
       ELSE IF instance.state # "STOPPED"
       THEN /\ last_call' = Call("start", "FAILURE", <<>>, <<>>)
            /\ instance' = [instance EXCEPT !.session_handle = session_handle]
            /\ UNCHANGED failures
       ELSE LET r == update_messenger_state(
                        Running([instance EXCEPT !.session_handle = session_handle]),
                        "STARTING")
            IN  /\ instance' = r.inst
                /\ failures' = [failures EXCEPT !.since_start = 0]
                /\ last_call' = Call("start", "OK", r.cbs, <<>>)
    /\ UNCHANGED <<send_queue, lib_sends, now, next_id, cb_count, status>>

\* amqp_messenger_start(messenger_handle, session_handle)
amqp_messenger_start(session_handle) ==
    /\ status = "created"
    /\ IF session_handle = 0 \/ instance.state # "STOPPED"
       THEN /\ last_call' = Call("start", "FAILURE", <<>>, <<>>)
            /\ UNCHANGED <<instance, failures>>
       ELSE LET r == update_messenger_state(
                        Running([instance EXCEPT !.session_handle = session_handle]),
                        "STARTING")
            IN  /\ instance' = r.inst
                /\ failures' = [failures EXCEPT !.since_start = 0]
                /\ last_call' = Call("start", "OK", r.cbs, <<>>)
    /\ UNCHANGED <<send_queue, lib_sends, now, next_id, cb_count, status>>

\* Mutation of the body of amqp_messenger_stop: the in-progress tasks are
\* not moved back to pending.
StopBody_without_move_back(inst, q, move_ok) ==
    LET r1 == update_messenger_state(Running(inst), "STOPPING")
        r2 == [r1 EXCEPT !.inst = destroy_message_receiver(destroy_message_sender(r1.inst))]
    IN  IF ~move_ok
        THEN [r |-> update_messenger_state(r2, "ERROR"), queue |-> q, ret |-> "FAILURE"]
        ELSE [r |-> update_messenger_state(r2, "STOPPED"), queue |-> q, ret |-> "OK"]

\* The body of amqp_messenger_stop for a messenger that is not STOPPED:
\* [r, queue, ret].  move_ok: message_queue_move_all_back_to_pending worked.
StopBody(inst, q, move_ok) ==
    LET r1 == update_messenger_state(Running(inst), "STOPPING")
        r2 == [r1 EXCEPT !.inst = destroy_message_receiver(destroy_message_sender(r1.inst))]
    IN  IF ~move_ok
        THEN [r |-> update_messenger_state(r2, "ERROR"), queue |-> q, ret |-> "FAILURE"]
        ELSE [r |-> update_messenger_state(r2, "STOPPED"),
              queue |-> message_queue_move_all_back_to_pending(q), ret |-> "OK"]

\* Mutation of amqp_messenger_stop: the tasks in progress are cancelled
\* instead of being moved back.
stop_cancelling_in_progress(move_ok) ==
    /\ status = "created"
    /\ IF instance.state = "STOPPED"
       THEN /\ move_ok
            /\ last_call' = Call("stop", "FAILURE", <<>>, <<>>)
            /\ UNCHANGED <<instance, send_queue, lib_sends, cb_count>>
       ELSE LET s == StopBody(instance, send_queue, move_ok)
                fired == Fired([k \in 1..Len(send_queue.in_progress) |->
                                  [id |-> send_queue.in_progress[k].id,
                                   mq |-> "MESSAGE_QUEUE_CANCELLED"]], s.r.inst.state)
            IN  /\ instance' = s.r.inst
                /\ send_queue' = [send_queue EXCEPT !.in_progress = <<>>]
                /\ lib_sends' = {}
                /\ cb_count' = Counted(cb_count, fired)
                /\ last_call' = Call("stop", s.ret, s.r.cbs, fired)
    /\ UNCHANGED <<now, next_id, status, failures>>

\* amqp_messenger_stop(messenger_handle)
amqp_messenger_stop(move_ok) ==
    /\ status = "created"
    /\ IF instance.state = "STOPPED"
       THEN /\ move_ok
            /\ last_call' = Call("stop", "FAILURE", <<>>, <<>>)
            /\ UNCHANGED <<instance, send_queue, lib_sends>>
       ELSE LET s == StopBody(instance, send_queue, move_ok)
            IN  /\ instance' = s.r.inst
                /\ send_queue' = s.queue
                /\ lib_sends' = {}
                /\ last_call' = Call("stop", s.ret, s.r.cbs, <<>>)
    /\ UNCHANGED <<now, next_id, cb_count, status, failures>>

\* amqp_messenger_send_async(messenger_handle, message, callback, context).
\* alloc_ok: message_clone, create_message_send_context and
\* message_queue_add all succeeded.
amqp_messenger_send_async(alloc_ok) ==
    /\ status = "created"
    /\ LET s == SendAsyncOn(send_queue, next_id, cb_count, alloc_ok)
       IN  /\ send_queue' = s.queue
           /\ next_id' = s.next_id
           /\ cb_count' = s.counts
           /\ last_call' = Call("send_async", s.ret, <<>>, <<>>)
    /\ UNCHANGED <<instance, lib_sends, now, status, failures>>

\* Mutation of amqp_messenger_get_send_status: only the pending tasks count.
get_send_status_of_pending_only(is_empty_ok) ==
    /\ status = "created"
    /\ last_call' = Call("get_send_status",
                         IF ~is_empty_ok THEN "FAILURE"
                         ELSE IF send_queue.pending = <<>>
                         THEN "AMQP_MESSENGER_SEND_STATUS_IDLE"
                         ELSE "AMQP_MESSENGER_SEND_STATUS_BUSY",
                         <<>>, <<>>)
    /\ UNCHANGED <<instance, send_queue, lib_sends, now, next_id, cb_count, status,
                   failures>>

\* The status amqp_messenger_get_send_status reports for a queue.
SendStatusOf(q) ==
    IF message_queue_is_empty(q)
    THEN "AMQP_MESSENGER_SEND_STATUS_IDLE"
    ELSE "AMQP_MESSENGER_SEND_STATUS_BUSY"

\* amqp_messenger_get_send_status(messenger_handle, send_status).
\* is_empty_ok: message_queue_is_empty worked.  The value returned through
\* send_status is kept as the call's return value.
amqp_messenger_get_send_status(is_empty_ok) ==
    /\ status = "created"
    /\ last_call' = Call("get_send_status",
                         IF is_empty_ok THEN SendStatusOf(send_queue) ELSE "FAILURE",
                         <<>>, <<>>)
    /\ UNCHANGED <<instance, send_queue, lib_sends, now, next_id, cb_count, status,
                   failures>>

\* amqp_messenger_set_option(messenger_handle, name, value).
\* setter_ok: message_queue_set_max_message_enqueued_time_secs worked.
amqp_messenger_set_option(name, value, setter_ok) ==
    /\ status = "created"
    /\ IF name = MESSENGER_OPTION_EVENT_SEND_TIMEOUT_SECS
       THEN LET s == message_queue_set_max_message_enqueued_time_secs(
                         send_queue, value, setter_ok)
            IN  /\ send_queue' = s.queue
                /\ last_call' = Call("set_option",
                                     IF s.rc = 0 THEN "FAILURE" ELSE "OK", <<>>, <<>>)
       ELSE /\ setter_ok
            /\ last_call' = Call("set_option", "FAILURE", <<>>, <<>>)
            /\ UNCHANGED send_queue
    /\ UNCHANGED <<instance, lib_sends, now, next_id, cb_count, status, failures>>

\* amqp_messenger_subscribe_for_messages(handle, callback, context)
amqp_messenger_subscribe_for_messages(args_ok) ==
    /\ status = "created"
    /\ IF args_ok
       THEN /\ instance' = [instance EXCEPT !.on_message_received_callback = TRUE,
                                            !.receive_messages = TRUE]
            /\ last_call' = Call("subscribe", "OK", <<>>, <<>>)
       ELSE /\ last_call' = Call("subscribe", "FAILURE", <<>>, <<>>)
            /\ UNCHANGED instance
    /\ UNCHANGED <<send_queue, lib_sends, now, next_id, cb_count, status, failures>>

\* Mutation of amqp_messenger_unsubscribe_for_messages: the receiver is
\* destroyed at once.
unsubscribe_destroying_receiver ==
    /\ status = "created"
    /\ instance' = [destroy_message_receiver(instance)
                       EXCEPT !.receive_messages = FALSE,
                              !.on_message_received_callback = FALSE]
    /\ last_call' = Call("unsubscribe", "OK", <<>>, <<>>)
    /\ UNCHANGED <<send_queue, lib_sends, now, next_id, cb_count, status, failures>>

\* amqp_messenger_unsubscribe_for_messages(handle)
amqp_messenger_unsubscribe_for_messages ==
    /\ status = "created"
    /\ instance' = [instance EXCEPT !.receive_messages = FALSE,
                                    !.on_message_received_callback = FALSE]
    /\ last_call' = Call("unsubscribe", "OK", <<>>, <<>>)
    /\ UNCHANGED <<send_queue, lib_sends, now, next_id, cb_count, status, failures>>

\* on_message_sender_state_changed_callback(context, new_state, previous_state),
\* invoked by the library while the message sender exists; t is what
\* get_time returns.
on_message_sender_state_changed_callback(new_state, previous_state, t) ==
    /\ status = "created"
    /\ instance.message_sender
    /\ new_state # previous_state
    /\ instance' = [instance EXCEPT !.message_sender_current_state = new_state,
                                    !.last_message_sender_state_change_time = t]
    /\ last_call' = Call("sender_state_changed", "VOID", <<>>, <<>>)
    /\ UNCHANGED <<send_queue, lib_sends, now, next_id, cb_count, status, failures>>

\* on_message_receiver_state_changed_callback(context, new_state, previous_state)
on_message_receiver_state_changed_callback(new_state, previous_state, t) ==
    /\ status = "created"
    /\ instance.message_receiver
    /\ new_state # previous_state
    /\ instance' = [instance EXCEPT !.message_receiver_current_state = new_state,
                                    !.last_message_receiver_state_change_time = t]
    /\ last_call' = Call("receiver_state_changed", "VOID", <<>>, <<>>)
    /\ UNCHANGED <<send_queue, lib_sends, now, next_id, cb_count, status, failures>>

\* The queue's completion hook for a task found in progress: the task
\* leaves the queue and its user callback fires.
CompleteInProgress(id, mq_result) ==
    LET keep(task) == task.id # id
        fired == Fired(<<[id |-> id, mq |-> mq_result]>>, instance.state)
    IN  /\ send_queue' = [send_queue EXCEPT
                             !.in_progress = SelectSeq(send_queue.in_progress, keep)]
        /\ instance' = [instance EXCEPT
                             !.send_error_count = @ + ErrorsIn(fired)]
        /\ cb_count' = Counted(cb_count, fired)
        /\ failures' = Noted(failures, fired)
        /\ last_call' = Call("send_complete", "VOID", <<>>, fired)
        /\ UNCHANGED status

\* on_send_complete_callback(context, send_result), invoked by the library
\* once for every message it accepted.  When the task already completed
\* (its enqueue age ran out while the send was in flight) the context is
\* freed memory: the read may see the old content (the queue finds no such
\* message in progress: stale = 0), the content of a newer task that reuses
\* the block (stale = that task's id), or bring the process down (stale = -1).
on_send_complete_callback(id, send_result, stale) ==
    /\ status = "created"
    /\ id \in lib_sends
    /\ lib_sends' = lib_sends \ {id}
    /\ LET mq_result == MqResultOf(send_result)
       IN  IF id \in Ids(send_queue.in_progress)
           THEN stale = 0 /\ CompleteInProgress(id, mq_result)
           ELSE IF stale = 0
           THEN /\ last_call' = Call("send_complete", "VOID", <<>>, <<>>)
                /\ UNCHANGED <<instance, send_queue, cb_count, status, failures>>
           ELSE IF stale = -1
           THEN /\ status' = "aborted"
                /\ last_call' = Call("send_complete", "ABORT", <<>>, <<>>)
                /\ UNCHANGED <<instance, send_queue, cb_count, failures>>
           ELSE stale \in Ids(send_queue.in_progress)
                /\ CompleteInProgress(stale, mq_result)
    /\ UNCHANGED <<now, next_id>>

\* The STARTED branch of amqp_messenger_do_work after process_state_changes,
\* on the send queue q with the callback counters counts.
\* fails: the tasks whose messagesender_send returns an error.
DoWorkStarted(r, q, counts, outcome, report, t, fails, ub) ==
    LET i1 == r.inst
        i2 == IF i1.receive_messages /\ ~i1.message_receiver
              THEN create_message_receiver(i1, outcome, report, t).inst
              ELSE IF ~i1.receive_messages /\ i1.message_receiver
              THEN destroy_message_receiver(i1)
              ELSE i1
        w  == message_queue_do_work(q, now, fails)
        fired == Fired(w.comps, i2.state)
        i3 == [i2 EXCEPT !.send_error_count = @ + ErrorsIn(fired)]
        r3 == IF i3.send_error_count >= i3.max_send_error_count
              THEN update_messenger_state([r EXCEPT !.inst = i3], "ERROR")
              ELSE [r EXCEPT !.inst = i3]
        undefined == fails # {} \/ w.resent # {}
    IN  /\ (i1.receive_messages /\ ~i1.message_receiver) \/ outcome = "OK"
        /\ (i1.receive_messages /\ ~i1.message_receiver /\ outcome = "OPEN_FAIL")
              \/ report = "NONE"
        /\ report # "NONE" \/ t = now
        /\ undefined \/ ub = "CONTINUE"
        /\ instance' = r3.inst
        /\ send_queue' = w.queue
        /\ lib_sends' = lib_sends \cup w.sent
        /\ cb_count' = Counted(counts, fired)
        /\ failures' = Noted(failures, fired)
        /\ status' = IF ub = "ABORT" THEN "aborted" ELSE status
        /\ last_call' = Call("do_work", IF ub = "ABORT" THEN "ABORT" ELSE "VOID",
                             r3.cbs, fired)

\* The STARTING branch of amqp_messenger_do_work after process_state_changes.
DoWorkStarting(r, q, counts, outcome, report, t) ==
    LET c  == create_message_sender(r.inst, outcome, report, t)
        r2 == IF r.inst.message_sender THEN r
              ELSE IF c.ok THEN [r EXCEPT !.inst = c.inst]
              ELSE update_messenger_state([r EXCEPT !.inst = c.inst], "ERROR")
    IN  /\ ~r.inst.message_sender \/ outcome = "OK"
        /\ (~r.inst.message_sender /\ outcome = "OPEN_FAIL") \/ report = "NONE"
        /\ report # "NONE" \/ t = now
        /\ instance' = r2.inst
        /\ send_queue' = q
        /\ cb_count' = counts
        /\ last_call' = Call("do_work", "VOID", r2.cbs, <<>>)
        /\ UNCHANGED <<lib_sends, status, failures>>

\* Mutation of the body of amqp_messenger_do_work: the branch is chosen by
\* the state the messenger had before process_state_changes.
do_work_on_state_before_reconciliation(q, counts, outcome, report, t, fails, ub) ==
    LET r == process_state_changes(Running(instance), now)
    IN  IF instance.state = "STARTING"
        THEN fails = {} /\ ub = "CONTINUE"
             /\ DoWorkStarting(r, q, counts, outcome, report, t)
        ELSE IF instance.state = "STARTED"
        THEN DoWorkStarted(r, q, counts, outcome, report, t, fails, ub)
        ELSE /\ outcome = "OK" /\ report = "NONE" /\ t = now
             /\ fails = {} /\ ub = "CONTINUE"
             /\ instance' = r.inst
             /\ send_queue' = q
             /\ cb_count' = counts
             /\ last_call' = Call("do_work", "VOID", r.cbs, <<>>)
             /\ UNCHANGED <<lib_sends, status, failures>>

\* The body of amqp_messenger_do_work on the send queue q with the callback
\* counters counts.
DoWorkOn(q, counts, outcome, report, t, fails, ub) ==
    LET r == process_state_changes(Running(instance), now)
    IN  IF r.inst.state = "STARTING"
        THEN fails = {} /\ ub = "CONTINUE"
             /\ DoWorkStarting(r, q, counts, outcome, report, t)
        ELSE IF r.inst.state = "STARTED"
        THEN DoWorkStarted(r, q, counts, outcome, report, t, fails, ub)
        ELSE /\ outcome = "OK" /\ report = "NONE" /\ t = now
             /\ fails = {} /\ ub = "CONTINUE"
             /\ instance' = r.inst
             /\ send_queue' = q
             /\ cb_count' = counts
             /\ last_call' = Call("do_work", "VOID", r.cbs, <<>>)
             /\ UNCHANGED <<lib_sends, status, failures>>

\* amqp_messenger_do_work(messenger_handle)
amqp_messenger_do_work(outcome, report, t, fails, ub) ==
    /\ status = "created"
    /\ DoWorkOn(send_queue, cb_count, outcome, report, t, fails, ub)
    /\ UNCHANGED <<now, next_id>>

\* Mutation of amqp_messenger_destroy: the send queue is not destroyed, so
\* the tasks still in it are never cancelled.
destroy_without_cancelling(move_ok) ==
    /\ status = "created"
    /\ LET s == IF instance.state # "STOPPED"
                THEN StopBody(instance, send_queue, move_ok)
                ELSE [r |-> Running(instance), queue |-> send_queue, ret |-> "OK"]
       IN  /\ instance.state # "STOPPED" \/ move_ok
           /\ instance' = s.r.inst
           /\ send_queue' = s.queue
           /\ lib_sends' = {}
           /\ last_call' = Call("destroy", "VOID", s.r.cbs, <<>>)
    /\ status' = "destroyed"
    /\ UNCHANGED <<now, next_id, cb_count, failures>>

\* amqp_messenger_destroy(messenger_handle)
amqp_messenger_destroy(move_ok) ==
    /\ status = "created"
    /\ LET s == IF instance.state # "STOPPED"
                THEN StopBody(instance, send_queue, move_ok)
                ELSE [r |-> Running(instance), queue |-> send_queue, ret |-> "OK"]
           fired == Fired(message_queue_destroy(s.queue), s.r.inst.state)
       IN  /\ instance.state # "STOPPED" \/ move_ok
           /\ instance' = [s.r.inst EXCEPT !.send_error_count = @ + ErrorsIn(fired)]
           /\ send_queue' = [s.queue EXCEPT !.pending = <<>>, !.in_progress = <<>>]
           /\ lib_sends' = {}
           /\ cb_count' = Counted(cb_count, fired)
           /\ failures' = Noted(failures, fired)
           /\ last_call' = Call("destroy", "VOID", s.r.cbs, fired)
    /\ status' = "destroyed"
    /\ UNCHANGED <<now, next_id>>

\* Time passes between two calls.
AdvanceTime(d) ==
    /\ status = "created"
    /\ now' = now + d
    /\ UNCHANGED <<instance, send_queue, lib_sends, next_id, cb_count, status, failures,
                   last_call>>

\* ------------------------------------------------------ specifications ----
\* A state other than s: the state callbacks only compare their two
\* arguments, so one previous state stands for all.
Other(s) == CHOOSE p \in LinkStates : p # s

\* The AMQP messenger used on its own: the twin messenger is not involved.
Start(sessions) ==
    /\ \E session_handle \in sessions : amqp_messenger_start(session_handle)
    /\ UNCHANGED twin_vars

Stop(oks) ==
    /\ \E move_ok \in oks : amqp_messenger_stop(move_ok)
    /\ UNCHANGED twin_vars

SendAsync(max_tasks, max_queue) ==
    /\ next_id <= max_tasks
    /\ QueueLen < max_queue
    /\ \E alloc_ok \in BOOLEAN : amqp_messenger_send_async(alloc_ok)
    /\ UNCHANGED twin_vars

Subscribe ==
    /\ \E args_ok \in BOOLEAN : amqp_messenger_subscribe_for_messages(args_ok)
    /\ UNCHANGED twin_vars

Unsubscribe ==
    /\ amqp_messenger_unsubscribe_for_messages
    /\ UNCHANGED twin_vars

DoWork(outcomes, reports, times) ==
    /\ \E outcome \in outcomes, report \in reports, t \in times,
          fails \in SUBSET Ids(send_queue.pending), ub \in {"CONTINUE", "ABORT"} :
           amqp_messenger_do_work(outcome, report, t, fails, ub)
    /\ UNCHANGED twin_vars

SenderStateChanged(states, times) ==
    /\ \E new_state \in states, t \in times :
           on_message_sender_state_changed_callback(new_state, Other(new_state), t)
    /\ UNCHANGED twin_vars

ReceiverStateChanged(states, times) ==
    /\ \E new_state \in states, t \in times :
           on_message_receiver_state_changed_callback(new_state, Other(new_state), t)
    /\ UNCHANGED twin_vars

SendComplete ==
    /\ \E id \in lib_sends, send_result \in {"MESSAGE_SEND_OK", "MESSAGE_SEND_ERROR"},
          stale \in {-1, 0} \cup Ids(send_queue.in_progress) :
           on_send_complete_callback(id, send_result, stale)
    /\ UNCHANGED twin_vars

Destroy(oks) ==
    /\ \E move_ok \in oks : amqp_messenger_destroy(move_ok)
    /\ UNCHANGED twin_vars

Tick(steps, max_time) ==
    /\ \E d \in steps : now + d <= max_time /\ AdvanceTime(d)
    /\ UNCHANGED twin_vars

\* The link lifecycle: start, stop, do_work, subscription and the states the
\* sender and the receiver report, with the clock and its failures; nothing
\* is sent.
NextLink ==
    \/ Start(Sessions)
    \/ Stop(BOOLEAN)
    \/ Subscribe
    \/ Unsubscribe
    \/ DoWork(CreateOutcomes, OpenReports, GetTimeResults)
    \/ SenderStateChanged(LinkStates, GetTimeResults)
    \/ ReceiverStateChanged(LinkStates, GetTimeResults)
    \/ Destroy(BOOLEAN)
    \/ Tick(LinkTimeSteps, MaxLinkTime)

SpecLink == Init /\ [][NextLink]_vars

\* The send path: up to MaxTasks messages, their dispatch, completion and
\* enqueue-age timeout, over stop/start cycles and destroy.
Next ==
    \/ Start({1})
    \/ Stop(BOOLEAN)
    \/ SendAsync(MaxTasks, MaxTasks)
    \/ DoWork({"OK", "OPEN_FAIL"}, {"NONE"}, {now})
    \/ SenderStateChanged({"OPEN", "ERROR"}, {now})
    \/ SendComplete
    \/ Destroy(BOOLEAN)
    \/ Tick(SendTimeSteps, MaxTime)

Spec == Init /\ [][Next]_vars

\* The send-error cap: up to MaxErrTasks messages, at most MaxErrQueue of
\* them enqueued at a time; the clock stands still.
NextErr ==
    \/ Start({1})
    \/ Stop({TRUE})
    \/ SendAsync(MaxErrTasks, MaxErrQueue)
    \/ DoWork({"OK"}, {"NONE"}, {now})
    \/ SenderStateChanged({"OPEN"}, {now})
    \/ SendComplete

SpecErr == Init /\ [][NextErr]_vars

GetSendStatus ==
    /\ \E is_empty_ok \in BOOLEAN : amqp_messenger_get_send_status(is_empty_ok)
    /\ UNCHANGED twin_vars

SetOption ==
    /\ \E name \in OptionNames, value \in OptionValues, setter_ok \in BOOLEAN :
           amqp_messenger_set_option(name, value, setter_ok)
    /\ UNCHANGED twin_vars

\* Options and status: up to MaxOptTasks messages with the enqueue-age limit
\* set by the caller, over stop/start cycles.
NextOpt ==
    \/ Start({1})
    \/ Stop({TRUE})
    \/ SetOption
    \/ GetSendStatus
    \/ SendAsync(MaxOptTasks, MaxOptTasks)
    \/ DoWork({"OK"}, {"NONE"}, {now})
    \/ SenderStateChanged({"OPEN"}, {now})
    \/ SendComplete
    \/ Tick(OptTimeSteps, MaxOptTime)

SpecOpt == Init /\ [][NextOpt]_vars

\* ------------------------------------------------- twin messenger calls ----
amqp_vars == <<instance, send_queue, lib_sends, now, next_id, cb_count, status,
               failures, last_call>>

\* The process runs: it did not abort inside the AMQP messenger nor inside
\* the twin messenger, and no call of the twin messenger loops forever.
TwinAlive == status = "created" /\ twin_call.ret \notin {"ABORT", "HANG"}

\* The twin messenger after a call into the AMQP messenger: the state
\* callbacks and the send completions that call fired have run against tr.
\* A completion that reads a destroyed context is undefined: the process
\* goes on with the context's old content (tub = "CONTINUE") or aborts.
TwinAfter(tr, op, ret, tub) ==
    LET t1 == SendCompletions(StateChanges(tr, last_call'.state_cbs),
                              last_call'.send_cbs)
    IN  /\ ReadsFreedContext(tr.ctx, last_call'.send_cbs) \/ tub = "CONTINUE"
        /\ twin' = t1.twin
        /\ twin_ctx' = [c \in 1..Len(t1.ctx) |->
                           [t1.ctx[c] EXCEPT !.sent = @ \/ t1.ctx[c].task \in lib_sends']]
        /\ twin_call' = [TwinCall(op, IF tub = "ABORT" THEN "ABORT" ELSE ret)
                            EXCEPT !.requests = t1.requests,
                                   !.delta_cbs = t1.delta_cbs,
                                   !.report_cbs = t1.report_cbs,
                                   !.state_cbs = t1.state_cbs]

\* twin_messenger_start(twin_msgr_handle, session_handle)
twin_messenger_start(session_handle) ==
    /\ TwinAlive
    /\ amqp_messenger_start(session_handle)
    /\ TwinAfter(TwinRunning(twin, twin_ctx), "start", last_call'.ret, "CONTINUE")

\* twin_messenger_stop(twin_msgr_handle)
twin_messenger_stop(move_ok) ==
    /\ TwinAlive
    /\ amqp_messenger_stop(move_ok)
    /\ TwinAfter(TwinRunning(twin, twin_ctx), "stop", last_call'.ret, "CONTINUE")

\* Mutation of twin_messenger_subscribe: the subscription state is not
\* looked at.
subscribe_in_any_state(args_ok) ==
    /\ TwinAlive
    /\ IF ~args_ok
       THEN /\ twin_call' = TwinCall("subscribe", "FAILURE")
            /\ UNCHANGED <<amqp_vars, twin, twin_ctx>>
       ELSE /\ amqp_messenger_subscribe_for_messages(TRUE)
            /\ twin' = [twin EXCEPT !.on_message_received_callback = TRUE,
                                    !.subscription_state = "GET_COMPLETE_PROPERTIES"]
            /\ twin_call' = TwinCall("subscribe", last_call'.ret)
            /\ UNCHANGED twin_ctx

\* twin_messenger_subscribe(twin_msgr_handle, on_twin_state_update_callback,
\* context).  args_ok: the callback is not NULL.
twin_messenger_subscribe(args_ok) ==
    /\ TwinAlive
    /\ IF ~args_ok
       THEN /\ twin_call' = TwinCall("subscribe", "FAILURE")
            /\ UNCHANGED <<amqp_vars, twin, twin_ctx>>
       ELSE IF twin.subscription_state # "NOT_SUBSCRIBED"
       THEN /\ twin_call' = TwinCall("subscribe", "OK")
            /\ UNCHANGED <<amqp_vars, twin, twin_ctx>>
       ELSE /\ amqp_messenger_subscribe_for_messages(TRUE)
            /\ twin' = IF last_call'.ret = "OK"
                       THEN [twin EXCEPT !.on_message_received_callback = TRUE,
                                         !.subscription_state = "GET_COMPLETE_PROPERTIES"]
                       ELSE [twin EXCEPT !.on_message_received_callback = FALSE]
            /\ twin_call' = TwinCall("subscribe", last_call'.ret)
            /\ UNCHANGED twin_ctx

\* twin_messenger_unsubscribe(twin_msgr_handle)
twin_messenger_unsubscribe ==
    /\ TwinAlive
    /\ amqp_messenger_unsubscribe_for_messages
    /\ twin' = [twin EXCEPT !.subscription_state = "UNSUBSCRIBE",
                            !.on_message_received_callback = FALSE]
    /\ twin_call' = TwinCall("unsubscribe", "OK")
    /\ UNCHANGED twin_ctx

\* The subscription step of the tick tries to issue a request.
IssuesRequest(tw) ==
    /\ tw.subscription_error_count < DEFAULT_MAX_TWIN_SUBSCRIPTION_ERROR_COUNT
    /\ tw.subscription_state \in
           {"GET_COMPLETE_PROPERTIES", "SUBSCRIBE_FOR_UPDATES", "UNSUBSCRIBE"}

\* twin_messenger_do_work(twin_msgr_handle): process_twin_subscription,
\* process_timeouts (which does nothing) and amqp_messenger_do_work.
twin_messenger_do_work(ctx_ok, add_ok, alloc_ok, outcome, report, t, fails, ub, tub) ==
    /\ TwinAlive
    /\ IssuesRequest(twin) \/ (ctx_ok /\ add_ok /\ alloc_ok)
    /\ ctx_ok \/ (add_ok /\ alloc_ok)
    /\ add_ok \/ alloc_ok
    /\ LET p == process_twin_subscription(TwinRunning(twin, twin_ctx), send_queue,
                                          next_id, cb_count, ctx_ok, add_ok, alloc_ok)
       IN  /\ fails \subseteq Ids(p.queue.pending)
           /\ DoWorkOn(p.queue, p.counts, outcome, report, t, fails, ub)
           /\ next_id' = p.next_id
           /\ TwinAfter(p.tr, "do_work", "VOID", tub)
    /\ UNCHANGED now

\* on_send_complete_callback of the AMQP messenger for a request of the twin
\* messenger; the completion reaches on_amqp_send_complete_callback.
twin_send_complete(id, send_result, stale, tub) ==
    /\ TwinAlive
    /\ on_send_complete_callback(id, send_result, stale)
    /\ TwinAfter(TwinRunning(twin, twin_ctx), "send_complete", "VOID", tub)

\* What on_amqp_message_received leaves: the twin messenger in the running
\* call and the disposition it returns.
Accepted(tr) == [tr |-> tr, disposition |-> "ACCEPTED"]

Rejected(tr) == [tr |-> tr, disposition |-> "REJECTED"]

\* The delta callback, when one is installed.
Delta(tr, update_type, has_body) ==
    IF tr.twin.on_message_received_callback
    THEN [tr EXCEPT !.delta_cbs = Append(@, [update_type |-> update_type,
                                            has_body |-> has_body])]
    ELSE tr

\* The status code stands for a success.
Succeeded(has_status_code, status_code) ==
    has_status_code /\ status_code >= 200 /\ status_code < 300

\* Mutation of the response to a PATCH: the status annotation is not
\* required.
ReceivedPatch_without_status_test(tr, c, has_status_code, status_code) ==
    Accepted([tr EXCEPT !.report_cbs =
                 Append(@, [c |-> c, result |-> "SUCCESS", reason |-> "NONE",
                            status_code |-> status_code])])

\* on_amqp_message_received, the response to a PATCH with correlation id c.
ReceivedPatch(tr, c, has_status_code, status_code) ==
    IF ~has_status_code
    THEN Rejected([tr EXCEPT !.report_cbs =
                      Append(@, [c |-> c, result |-> "ERROR",
                                 reason |-> "INVALID_RESPONSE", status_code |-> 0])])
    ELSE Accepted([tr EXCEPT !.report_cbs =
                      Append(@, [c |-> c, result |-> "SUCCESS", reason |-> "NONE",
                                 status_code |-> status_code])])

\* Mutation of the response to a GET: a response without a body is counted
\* as an error, the GET is not issued again.
ReceivedGet_without_rollback(tr, has_twin_report) ==
    IF ~has_twin_report
    THEN Rejected(
           IF tr.twin.subscription_state = "GETTING_COMPLETE_PROPERTIES"
           THEN [Delta(tr, "COMPLETE", FALSE) EXCEPT
                   !.twin.subscription_error_count = @ + 1]
           ELSE Delta(tr, "COMPLETE", FALSE))
    ELSE Accepted(
           IF tr.twin.subscription_state = "GETTING_COMPLETE_PROPERTIES"
           THEN [Delta(tr, "COMPLETE", TRUE) EXCEPT
                   !.twin.subscription_state = "SUBSCRIBE_FOR_UPDATES",
                   !.twin.subscription_error_count = 0]
           ELSE Delta(tr, "COMPLETE", TRUE))

\* on_amqp_message_received, the response to a GET.
ReceivedGet(tr, has_twin_report) ==
    IF ~has_twin_report
    THEN Rejected(
           IF tr.twin.subscription_state = "GETTING_COMPLETE_PROPERTIES"
           THEN [Delta(tr, "COMPLETE", FALSE) EXCEPT
                   !.twin.subscription_state = "GET_COMPLETE_PROPERTIES",
                   !.twin.subscription_error_count = @ + 1]
           ELSE Delta(tr, "COMPLETE", FALSE))
    ELSE Accepted(
           IF tr.twin.subscription_state = "GETTING_COMPLETE_PROPERTIES"
           THEN [Delta(tr, "COMPLETE", TRUE) EXCEPT
                   !.twin.subscription_state = "SUBSCRIBE_FOR_UPDATES",
                   !.twin.subscription_error_count = 0]
           ELSE Delta(tr, "COMPLETE", TRUE))

\* on_amqp_message_received, the response to a PUT: the test for
\* SUBSCRIBING stands inside the test for SUBSCRIBED.
ReceivedPut(tr, has_status_code, status_code) ==
    IF tr.twin.subscription_state = "SUBSCRIBED" THEN
        IF tr.twin.subscription_state = "SUBSCRIBING" THEN
            IF Succeeded(has_status_code, status_code)
            THEN Accepted([tr EXCEPT !.twin.subscription_state = "SUBSCRIBED",
                                     !.twin.subscription_error_count = 0])
            ELSE Accepted([tr EXCEPT !.twin.subscription_state = "SUBSCRIBE_FOR_UPDATES",
                                     !.twin.subscription_error_count = @ + 1])
        ELSE Accepted(tr)
    ELSE Accepted(tr)

\* on_amqp_message_received, the response to a DELETE: the test for
\* UNSUBSCRIBING stands inside the test for NOT_SUBSCRIBED.
ReceivedDelete(tr, has_status_code, status_code) ==
    IF tr.twin.subscription_state = "NOT_SUBSCRIBED" THEN
        IF tr.twin.subscription_state = "UNSUBSCRIBING" THEN
            IF Succeeded(has_status_code, status_code)
            THEN Accepted([tr EXCEPT !.twin.subscription_state = "NOT_SUBSCRIBED",
                                     !.twin.subscription_error_count = 0])
            ELSE Accepted([tr EXCEPT !.twin.subscription_state = "UNSUBSCRIBE",
                                     !.twin.subscription_error_count = @ + 1])
        ELSE Accepted(tr)
    ELSE Accepted(tr)

\* Mutation of on_amqp_message_received: a message with a body and no
\* correlation id is delivered as a complete twin document.
received_with_delta_as_complete(tr, parse_ok, correlation_id, has_status_code, status_code, has_twin_report) ==
    IF ~parse_ok THEN Accepted(tr)
    ELSE IF correlation_id # 0 THEN
        IF correlation_id \notin Range(tr.twin.operations) THEN Accepted(tr)
        ELSE LET type == tr.ctx[correlation_id].type
                 h == IF type = "PATCH"
                      THEN ReceivedPatch(tr, correlation_id, has_status_code, status_code)
                      ELSE IF type = "GET" THEN ReceivedGet(tr, has_twin_report)
                      ELSE IF type = "PUT"
                      THEN ReceivedPut(tr, has_status_code, status_code)
                      ELSE ReceivedDelete(tr, has_status_code, status_code)
             IN  [h EXCEPT
                    !.tr.ctx = destroy_twin_operation_context(@, correlation_id),
                    !.tr.twin = remove_twin_operation_context_from_queue(
                                    @, correlation_id)]
    ELSE IF has_twin_report THEN Accepted(Delta(tr, "COMPLETE", TRUE))
    ELSE Accepted(tr)

\* Mutation of on_amqp_message_received: a message whose correlation id
\* matches no context is rejected.
received_rejecting_unmatched(tr, parse_ok, correlation_id, has_status_code, status_code, has_twin_report) ==
    IF ~parse_ok THEN Accepted(tr)
    ELSE IF correlation_id # 0 THEN
        IF correlation_id \notin Range(tr.twin.operations) THEN Rejected(tr)
        ELSE LET type == tr.ctx[correlation_id].type
                 h == IF type = "PATCH"
                      THEN ReceivedPatch(tr, correlation_id, has_status_code, status_code)
                      ELSE IF type = "GET" THEN ReceivedGet(tr, has_twin_report)
                      ELSE IF type = "PUT"
                      THEN ReceivedPut(tr, has_status_code, status_code)
                      ELSE ReceivedDelete(tr, has_status_code, status_code)
             IN  [h EXCEPT
                    !.tr.ctx = destroy_twin_operation_context(@, correlation_id),
                    !.tr.twin = remove_twin_operation_context_from_queue(
                                    @, correlation_id)]
    ELSE IF has_twin_report THEN Accepted(Delta(tr, "PARTIAL", TRUE))
    ELSE Accepted(tr)

\* on_amqp_message_received(message, disposition_info, context): [tr,
\* disposition].  parse_ok: parse_incoming_twin_message worked;
\* correlation_id 0: the message has none.
on_amqp_message_received(tr, parse_ok, correlation_id, has_status_code, status_code, has_twin_report) ==
    IF ~parse_ok THEN Accepted(tr)
    ELSE IF correlation_id # 0 THEN
        IF correlation_id \notin Range(tr.twin.operations) THEN Accepted(tr)
        ELSE LET type == tr.ctx[correlation_id].type
                 h == IF type = "PATCH"
                      THEN ReceivedPatch(tr, correlation_id, has_status_code, status_code)
                      ELSE IF type = "GET" THEN ReceivedGet(tr, has_twin_report)
                      ELSE IF type = "PUT"
                      THEN ReceivedPut(tr, has_status_code, status_code)
                      ELSE ReceivedDelete(tr, has_status_code, status_code)
             IN  [h EXCEPT
                    !.tr.ctx = destroy_twin_operation_context(@, correlation_id),
                    !.tr.twin = remove_twin_operation_context_from_queue(
                                    @, correlation_id)]
    ELSE IF has_twin_report THEN Accepted(Delta(tr, "PARTIAL", TRUE))
    ELSE Accepted(tr)

\* on_message_received_internal_callback(context, message) of the AMQP
\* messenger, invoked by the library while the receiver is open, with
\* on_amqp_message_received as the messenger's callback.  info_ok:
\* create_message_disposition_info worked.  Between
\* amqp_messenger_unsubscribe_for_messages and the tick that destroys the
\* receiver the callback is NULL and the call through it brings the
\* process down.
on_message_received_internal_callback(info_ok, parse_ok, correlation_id, has_status_code, status_code, has_twin_report) ==
    /\ TwinAlive
    /\ instance.message_receiver
    /\ instance.message_receiver_current_state = "OPEN"
    /\ IF ~info_ok
       THEN /\ parse_ok /\ correlation_id = 0 /\ ~has_status_code /\ status_code = 200
            /\ ~has_twin_report
            /\ last_call' = Call("message_received", "RELEASED", <<>>, <<>>)
            /\ twin_call' = [TwinCall("message_received", "VOID")
                                EXCEPT !.disposition = "RELEASED"]
            /\ UNCHANGED <<status, twin, twin_ctx>>
       ELSE IF ~instance.on_message_received_callback
       THEN /\ parse_ok /\ correlation_id = 0 /\ ~has_status_code /\ status_code = 200
            /\ ~has_twin_report
            /\ status' = "aborted"
            /\ last_call' = Call("message_received", "ABORT", <<>>, <<>>)
            /\ twin_call' = TwinCall("message_received", "ABORT")
            /\ UNCHANGED <<twin, twin_ctx>>
       ELSE LET m == on_amqp_message_received(TwinRunning(twin, twin_ctx), parse_ok,
                                              correlation_id, has_status_code,
                                              status_code, has_twin_report)
            IN  /\ has_status_code \/ status_code = 200
                /\ twin' = m.tr.twin
                /\ twin_ctx' = m.tr.ctx
                /\ last_call' = Call("message_received", m.disposition, <<>>, <<>>)
                /\ twin_call' = [TwinCall("message_received", "VOID")
                                    EXCEPT !.delta_cbs = m.tr.delta_cbs,
                                           !.report_cbs = m.tr.report_cbs,
                                           !.state_cbs = m.tr.state_cbs,
                                           !.disposition = m.disposition]
                /\ UNCHANGED status
    /\ UNCHANGED <<instance, send_queue, lib_sends, now, next_id, cb_count, failures>>

\* ------------------------------------------------- twin specifications ----
\* Status codes the cloud answers with.
StatusCodes == {200, 404}

\* Correlation ids an inbound message may carry: none (0), or that of a
\* request the cloud has seen.
KnownCorrelationIds == {0} \cup {c \in 1..Len(twin_ctx) : twin_ctx[c].sent}

\* The owner starts a stopped messenger.
TwinStart ==
    /\ instance.state = "STOPPED"
    /\ \E session_handle \in {1} : twin_messenger_start(session_handle)

TwinStop ==
    \E move_ok \in {TRUE} : twin_messenger_stop(move_ok)

TwinSubscribe ==
    \E args_ok \in {TRUE} : twin_messenger_subscribe(args_ok)

\* The owner subscribes, with a callback or with NULL.
TwinSubscribeAny ==
    \E args_ok \in BOOLEAN : twin_messenger_subscribe(args_ok)

TwinDoWork(oks) ==
    /\ IssuesRequest(twin) => Len(twin_ctx) < MaxTwinOps
    /\ \E ctx_ok \in oks, add_ok \in oks, alloc_ok \in oks :
           twin_messenger_do_work(ctx_ok, add_ok, alloc_ok, "OK", "NONE", now, {},
                                  "CONTINUE", "CONTINUE")

\* The library reports a link state that differs from the last one.
TwinLinkStateChanged(states) ==
    /\ TwinAlive
    /\ \/ SenderStateChanged(states \ {instance.message_sender_current_state}, {now})
       \/ ReceiverStateChanged(states \ {instance.message_receiver_current_state},
                               {now})

TwinSendComplete(results) ==
    \E id \in lib_sends, send_result \in results,
       stale \in {-1, 0} \cup Ids(send_queue.in_progress), tub \in {"CONTINUE", "ABORT"} :
        twin_send_complete(id, send_result, stale, tub)

TwinTick ==
    TwinAlive /\ Tick({DEFAULT_EVENT_SEND_TIMEOUT_SECS}, MaxTwinTime)

\* Inbound messages: <<info_ok, parse_ok, correlation_id, has_status_code,
\* status_code, has_twin_report>>; what is not looked at has one value.
InboundMessages ==
    {<<FALSE, TRUE, 0, FALSE, 200, FALSE>>, <<TRUE, FALSE, 0, FALSE, 200, FALSE>>}
    \cup {<<TRUE, TRUE, c, FALSE, 200, b>> : c \in KnownCorrelationIds, b \in BOOLEAN}
    \cup {<<TRUE, TRUE, c, TRUE, code, b>> :
             c \in KnownCorrelationIds, code \in StatusCodes, b \in BOOLEAN}

MessageReceived ==
    \E m \in InboundMessages :
        on_message_received_internal_callback(m[1], m[2], m[3], m[4], m[5], m[6])

\* The twin subscription: subscribe and unsubscribe, start, ticks, links
\* that open, send completions, inbound messages and requests that exceed
\* their enqueue age, with up to MaxTwinOps requests.
NextTwin ==
    \/ TwinStart
    \/ TwinSubscribeAny
    \/ twin_messenger_unsubscribe
    \/ TwinDoWork(BOOLEAN)
    \/ TwinLinkStateChanged({"OPEN"})
    \/ TwinSendComplete({"MESSAGE_SEND_OK", "MESSAGE_SEND_ERROR"})
    \/ MessageReceived
    \/ TwinTick

SpecTwin == Init /\ [][NextTwin]_vars

\* The cloud answers a request it has seen and that is still waited for: a
\* GET with status 200 and the twin document, a PUT with status 200.
CloudAnswers ==
    \E c \in Range(twin.operations) :
        /\ twin_ctx[c].sent
        /\ on_message_received_internal_callback(TRUE, TRUE, c, TRUE, 200,
                                                 twin_ctx[c].type = "GET")

\* The owner subscribes.
SubscribeOnce ==
    twin.subscription_state = "NOT_SUBSCRIBED" /\ TwinSubscribe

\* The owner subscribes again.
SubscribeAgain ==
    twin.subscription_state # "NOT_SUBSCRIBED" /\ TwinSubscribe

TwinSendSucceeds == TwinSendComplete({"MESSAGE_SEND_OK"})

TwinLinkOpens == TwinLinkStateChanged({"OPEN"})

\* A tick once the links the messenger has created have opened.
TwinTickOk ==
    /\ instance.message_sender => instance.message_sender_current_state = "OPEN"
    /\ instance.message_receiver => instance.message_receiver_current_state = "OPEN"
    /\ TwinDoWork({TRUE})

\* The cloud sends an update of the desired properties.
CloudSendsUpdate ==
    on_message_received_internal_callback(TRUE, TRUE, 0, FALSE, 200, TRUE)

\* The subscription with nothing going wrong: the owner subscribes, starts
\* and keeps calling do_work, the links open before the next tick, every
\* send is confirmed and the cloud answers every request.  Each of these
\* happens if it stays possible: the owner's loop calls do_work forever and
\* the library delivers what the peer sends.  Updates of the desired
\* properties and further calls of subscribe may come at any time.
NextTwinLive ==
    \/ SubscribeOnce
    \/ TwinStart
    \/ TwinTickOk
    \/ TwinLinkOpens
    \/ TwinSendSucceeds
    \/ CloudAnswers
    \/ CloudSendsUpdate
    \/ SubscribeAgain

SpecTwinLive ==
    /\ Init
    /\ [][NextTwinLive]_vars
    /\ WF_vars(SubscribeOnce)
    /\ WF_vars(TwinStart)
    /\ WF_vars(TwinTickOk)
    /\ WF_vars(TwinLinkOpens)
    /\ WF_vars(TwinSendSucceeds)
    /\ WF_vars(CloudAnswers)

\* -------------------------------------------------------------- claims ----
Enqueued == Ids(send_queue.pending) \cup Ids(send_queue.in_progress)

Sorted(s) == \A i, j \in 1..Len(s) : i < j => s[i].id < s[j].id

DoWorkInputs ==
    CreateOutcomes \X OpenReports \X {now, INDEFINITE_TIME}

\* C1: every accepted send_async gets its user callback exactly once: never
\* twice, not at all while the task is enqueued, once as soon as it left the
\* queue and in particular once the messenger is destroyed; the result is
\* SUCCESS, ERROR or CANCELLED.
C1_CallbackExactlyOnce ==
    /\ \A t \in DOMAIN cb_count :
          cb_count[t] = IF t \in Enqueued THEN 0 ELSE 1
    /\ status = "destroyed" => \A t \in DOMAIN cb_count : cb_count[t] = 1
    /\ \A k \in DOMAIN last_call.send_cbs :
          last_call.send_cbs[k].result \in {"SUCCESS", "ERROR", "CANCELLED"}

\* A destroy that cancelled one task after another one had completed.
C1_Witness ==
    /\ status = "destroyed"
    /\ Len(cb_count) >= 2
    /\ Len(last_call.send_cbs) = 1
    /\ last_call.send_cbs[1].result = "CANCELLED"

\* C2 as claimed: once the state is ERROR it stays ERROR under every call
\* but destroy.
C2_ErrorStickyUnlessDestroyed ==
    [][(instance.state = "ERROR" /\ status' # "destroyed")
          => instance'.state = "ERROR"]_vars

\* C2 as amended: once the state is ERROR it stays ERROR under start,
\* do_work, subscribe, unsubscribe and the library's callbacks; stop (and
\* destroy, which stops) leaves ERROR.
C2_ErrorStickyUnlessStopped ==
    [][(instance.state = "ERROR" /\ ~Stop(BOOLEAN) /\ ~Destroy(BOOLEAN))
          => instance'.state = "ERROR"]_vars

\* A start refused in ERROR.
C2_Witness ==
    /\ instance.state = "ERROR"
    /\ last_call.op = "start"
    /\ last_call.ret = "FAILURE"

\* C3: start succeeds only in STOPPED with a session: the state becomes
\* STARTING, the session is stored and the callback fires once with
\* (STOPPED, STARTING); otherwise it fails, changes neither state nor
\* session and fires no callback.
C3_StartOnlyWhenStopped ==
    [][\A session_handle \in Sessions :
          amqp_messenger_start(session_handle) =>
             IF instance.state = "STOPPED" /\ session_handle # 0
             THEN /\ last_call'.ret = "OK"
                  /\ instance'.state = "STARTING"
                  /\ instance'.session_handle = session_handle
                  /\ last_call'.state_cbs = << <<"STOPPED", "STARTING">> >>
             ELSE /\ last_call'.ret = "FAILURE"
                  /\ instance'.state = instance.state
                  /\ instance'.session_handle = instance.session_handle
                  /\ last_call'.state_cbs = <<>>]_vars

\* A start refused while the messenger runs on a session.
C3_Witness ==
    /\ last_call.op = "start"
    /\ last_call.ret = "FAILURE"
    /\ instance.state \in {"STARTING", "STARTED", "ERROR"}
    /\ instance.session_handle # 0

\* C4: stop in any state but STOPPED passes through STOPPING and, when the
\* move back works, ends in STOPPED with no sender, receiver or links and
\* both recorded child states IDLE; it ends in ERROR when the move back
\* fails; in STOPPED it fails and changes nothing.
C4_StopTearsDown ==
    [][\A move_ok \in BOOLEAN :
          amqp_messenger_stop(move_ok) =>
             IF instance.state = "STOPPED"
             THEN /\ last_call'.ret = "FAILURE"
                  /\ instance' = instance
                  /\ last_call'.state_cbs = <<>>
             ELSE /\ Head(last_call'.state_cbs) = <<instance.state, "STOPPING">>
                  /\ IF move_ok
                     THEN /\ instance'.state = "STOPPED"
                          /\ ~instance'.message_sender
                          /\ ~instance'.sender_link
                          /\ ~instance'.message_receiver
                          /\ ~instance'.receiver_link
                          /\ instance'.message_sender_current_state = "IDLE"
                          /\ instance'.message_receiver_current_state = "IDLE"
                     ELSE instance'.state = "ERROR"]_vars

\* C5: the queue is always in submission order, in-progress tasks first;
\* after a successful stop nothing is in progress and pending holds every
\* task not yet completed, in submission order.
C5_StopKeepsSubmissionOrder ==
    /\ Sorted(send_queue.in_progress \o send_queue.pending)
    /\ (last_call.op = "stop" /\ last_call.ret = "OK") =>
          /\ send_queue.in_progress = <<>>
          /\ Sorted(send_queue.pending)
          /\ Ids(send_queue.pending) = {t \in DOMAIN cb_count : cb_count[t] = 0}

\* A stop that moved two dispatched tasks back ahead of a third one that
\* was never dispatched.
C5_Witness ==
    /\ last_call.op = "stop"
    /\ last_call.ret = "OK"
    /\ Len(send_queue.pending) = 3
    /\ send_queue.pending[1].is_destroyed
    /\ send_queue.pending[2].is_destroyed
    /\ ~send_queue.pending[3].is_destroyed

\* The time since the sender's (receiver's) last state change is known to
\* be over, or known to be at most, the start-up timeout.  When get_time
\* failed as the change was recorded, the change still happened at or
\* after time 0.
SenderOver ==
    /\ instance.last_message_sender_state_change_time # INDEFINITE_TIME
    /\ now - instance.last_message_sender_state_change_time
          > MAX_MESSAGE_SENDER_STATE_CHANGE_TIMEOUT_SECS

ReceiverOver ==
    /\ instance.last_message_receiver_state_change_time # INDEFINITE_TIME
    /\ now - instance.last_message_receiver_state_change_time
          > MAX_MESSAGE_RECEIVER_STATE_CHANGE_TIMEOUT_SECS

ReceiverAtMost ==
    IF instance.last_message_receiver_state_change_time = INDEFINITE_TIME
    THEN now <= MAX_MESSAGE_RECEIVER_STATE_CHANGE_TIMEOUT_SECS
    ELSE now - instance.last_message_receiver_state_change_time
            <= MAX_MESSAGE_RECEIVER_STATE_CHANGE_TIMEOUT_SECS

\* What a do_work tick in STARTING does, given the sender states that lead
\* to ERROR besides a failed creation.
StartingTick(outcome, bad) ==
    IF instance.message_sender_current_state = "OPEN"
    THEN instance'.state = "STARTED"
    ELSE IF bad
    THEN instance'.state = "ERROR"
    ELSE IF ~instance.message_sender /\ outcome # "OK"
    THEN instance'.state = "ERROR"
    ELSE instance'.state = "STARTING" /\ instance'.message_sender

SenderBad ==
    \/ instance.message_sender_current_state \in {"ERROR", "CLOSING"}
    \/ instance.message_sender_current_state = "IDLE" /\ instance.message_sender
    \/ instance.message_sender_current_state = "OPENING" /\ SenderOver

SenderUntimed ==
    /\ instance.message_sender_current_state = "OPENING"
    /\ instance.last_message_sender_state_change_time = INDEFINITE_TIME

\* C6 as claimed: in STARTING a tick gives STARTED iff the sender is OPEN,
\* ERROR if the sender is ERROR, CLOSING, IDLE though present or OPENING for
\* more than 300 s, or if creating the sender fails, and otherwise leaves
\* STARTING with a sender.
C6_StartingTick ==
    [][\A in \in DoWorkInputs :
          (instance.state = "STARTING"
             /\ amqp_messenger_do_work(in[1], in[2], in[3], {}, "CONTINUE"))
          => StartingTick(in[1], SenderBad)]_vars

\* C6 as amended: ERROR also when the sender is OPENING and the time of its
\* last state change is not known, so that the timeout check fails.
C6_StartingTickOrCheckFails ==
    [][\A in \in DoWorkInputs :
          (instance.state = "STARTING"
             /\ amqp_messenger_do_work(in[1], in[2], in[3], {}, "CONTINUE"))
          => StartingTick(in[1], SenderBad \/ SenderUntimed)]_vars

\* A tick that gave up on a sender OPENING for 301 s.
C6_Witness ==
    /\ last_call.op = "do_work"
    /\ last_call.state_cbs = << <<"STARTING", "ERROR">> >>
    /\ instance.message_sender
    /\ instance.message_sender_current_state = "OPENING"
    /\ instance.last_message_sender_state_change_time = 0
    /\ now = 301

\* What a do_work tick in STARTED does (no send error is counted), given
\* the receiver states that lead to ERROR and those that keep STARTED.
StartedTick(bad, good) ==
    IF instance.message_sender_current_state # "OPEN"
    THEN instance'.state = "ERROR"
    ELSE IF instance.message_receiver /\ bad
    THEN instance'.state = "ERROR"
    ELSE (~instance.message_receiver \/ good) => instance'.state = "STARTED"

ReceiverBad ==
    \/ instance.message_receiver_current_state \in {"IDLE", "ERROR"}
    \/ instance.message_receiver_current_state = "OPENING" /\ ReceiverOver

ReceiverUntimed ==
    /\ instance.message_receiver_current_state = "OPENING"
    /\ instance.last_message_receiver_state_change_time = INDEFINITE_TIME

\* C7 as claimed: in STARTED a tick gives ERROR if the sender is not OPEN or
\* a receiver exists and is IDLE, ERROR or OPENING for more than 300 s; with
\* the sender OPEN and the receiver absent, OPEN or OPENING for at most
\* 300 s the state stays STARTED.
C7_StartedTick ==
    [][\A in \in DoWorkInputs :
          (instance.state = "STARTED" /\ instance.send_error_count = 0
             /\ amqp_messenger_do_work(in[1], in[2], in[3], {}, "CONTINUE"))
          => StartedTick(ReceiverBad,
                \/ instance.message_receiver_current_state = "OPEN"
                \/ instance.message_receiver_current_state = "OPENING"
                      /\ ReceiverAtMost)]_vars

\* C7 as amended: ERROR also when the receiver is OPENING and the time of
\* its last state change is not known; STARTED is kept for a receiver
\* OPENING for at most 300 s only when that time is known.
C7_StartedTickOrCheckFails ==
    [][\A in \in DoWorkInputs :
          (instance.state = "STARTED" /\ instance.send_error_count = 0
             /\ amqp_messenger_do_work(in[1], in[2], in[3], {}, "CONTINUE"))
          => StartedTick(ReceiverBad \/ ReceiverUntimed,
                \/ instance.message_receiver_current_state = "OPEN"
                \/ instance.message_receiver_current_state = "OPENING"
                      /\ ~ReceiverUntimed /\ ~ReceiverOver)]_vars

\* A tick that gave up on a receiver OPENING for 301 s.
C7_Witness ==
    /\ last_call.op = "do_work"
    /\ last_call.state_cbs = << <<"STARTED", "ERROR">> >>
    /\ instance.message_sender_current_state = "OPEN"
    /\ instance.message_receiver
    /\ instance.message_receiver_current_state = "OPENING"
    /\ instance.last_message_receiver_state_change_time = 0
    /\ now = 301

\* A do_work tick that moved STARTED to ERROR while the sender was OPEN:
\* the send-error cap.
CapError ==
    /\ last_call.op = "do_work"
    /\ last_call.state_cbs = << <<"STARTED", "ERROR">> >>
    /\ instance.message_sender_current_state = "OPEN"

\* C8: do_work moves STARTED to ERROR by the cap exactly when the number of
\* send failures in a row has reached max_send_error_count.
C8_CapCountsConsecutiveFailures ==
    /\ CapError => failures.streak >= instance.max_send_error_count
    /\ (last_call.op = "do_work" /\ instance.state = "STARTED")
          => failures.streak < instance.max_send_error_count

\* C9: after a restart the cap moves the messenger to ERROR only after
\* max_send_error_count failures since that restart.
C9_CapCountsFromRestart ==
    CapError => failures.since_start >= instance.max_send_error_count

\* C10: queue outcome to user result: SUCCESS -> (SUCCESS, NONE), TIMEOUT ->
\* (ERROR, TIMEOUT), CANCELLED in STOPPED -> (CANCELLED, MESSENGER_DESTROYED),
\* anything else -> (ERROR, FAIL_SENDING); send_error_count grows by one for
\* each callback of the last kind and by nothing else.
C10_Mapped(c) ==
    IF c.mq = "MESSAGE_QUEUE_SUCCESS"
    THEN c.result = "SUCCESS" /\ c.reason = "NONE"
    ELSE IF c.mq = "MESSAGE_QUEUE_TIMEOUT"
    THEN c.result = "ERROR" /\ c.reason = "TIMEOUT"
    ELSE IF c.mq = "MESSAGE_QUEUE_CANCELLED" /\ c.state = "STOPPED"
    THEN c.result = "CANCELLED" /\ c.reason = "MESSENGER_DESTROYED"
    ELSE c.result = "ERROR" /\ c.reason = "FAIL_SENDING"

C10_ResultMapping ==
    [][/\ \A k \in DOMAIN last_call'.send_cbs : C10_Mapped(last_call'.send_cbs[k])
       /\ now' = now =>
             instance'.send_error_count = instance.send_error_count
                + Cardinality({k \in DOMAIN last_call'.send_cbs :
                                  last_call'.send_cbs[k].reason = "FAIL_SENDING"})]_vars

\* A destroy whose stop failed: a task cancelled while the state is ERROR
\* is reported as a send failure and counted.
C10_Witness ==
    /\ last_call.op = "destroy"
    /\ \E k \in DOMAIN last_call.send_cbs :
          /\ last_call.send_cbs[k].mq = "MESSAGE_QUEUE_CANCELLED"
          /\ last_call.send_cbs[k].state = "ERROR"
          /\ last_call.send_cbs[k].reason = "FAIL_SENDING"
    /\ instance.send_error_count = 1

\* The task has been enqueued for longer than the queue's limit.
AgeExceeded(task) ==
    /\ send_queue.max_message_enqueued_time_secs > 0
    /\ now - task.enqueue_time > send_queue.max_message_enqueued_time_secs

\* C11: while the messenger is STARTING and the sender is not OPEN, a
\* do_work tick completes every task whose enqueue age exceeds the limit:
\* its user callback fires with (ERROR, TIMEOUT).
C11_TimeoutBeforeStarted ==
    [][(/\ instance.state = "STARTING"
        /\ instance.message_sender_current_state # "OPEN"
        /\ DoWork({"OK"}, {"NONE"}, {now}))
          => \A k \in DOMAIN send_queue.pending :
                AgeExceeded(send_queue.pending[k]) =>
                   /\ cb_count'[send_queue.pending[k].id] = 1
                   /\ \E j \in DOMAIN last_call'.send_cbs :
                         /\ last_call'.send_cbs[j].id = send_queue.pending[k].id
                         /\ last_call'.send_cbs[j].result = "ERROR"
                         /\ last_call'.send_cbs[j].reason = "TIMEOUT"]_vars

\* C16: get_send_status reports BUSY iff a task is pending or in progress,
\* IDLE otherwise.
C16_BusyIffEnqueued ==
    (last_call.op = "get_send_status" /\ last_call.ret # "FAILURE") =>
        /\ last_call.ret \in {"AMQP_MESSENGER_SEND_STATUS_BUSY",
                              "AMQP_MESSENGER_SEND_STATUS_IDLE"}
        /\ last_call.ret = "AMQP_MESSENGER_SEND_STATUS_BUSY" <=> Enqueued # {}

\* BUSY reported while the only task is in progress, after a stop/start
\* cycle would have been possible: nothing is pending.
C16_Witness ==
    /\ last_call.op = "get_send_status"
    /\ last_call.ret = "AMQP_MESSENGER_SEND_STATUS_BUSY"
    /\ send_queue.pending = <<>>
    /\ Len(send_queue.in_progress) = 1

\* C17: set_option succeeds exactly when the name is
\* amqp_event_send_timeout_secs and the queue's setter returns zero; the
\* queue then has the new limit; the call fails when the setter fails and
\* for every other name.
C17_SetOptionResult ==
    [][\A name \in OptionNames, value \in OptionValues, setter_ok \in BOOLEAN :
          amqp_messenger_set_option(name, value, setter_ok) =>
             /\ last_call'.ret = "OK"
                   <=> (name = MESSENGER_OPTION_EVENT_SEND_TIMEOUT_SECS /\ setter_ok)
             /\ last_call'.ret = "OK"
                   => send_queue'.max_message_enqueued_time_secs = value]_vars

\* C12: stop fires no user send callback and leaves every task enqueued
\* (in progress moved back to pending when the stop succeeds); a cancelled
\* task reaches a user callback only during destroy.
C12_StopFiresNoSendCallback ==
    [][/\ Stop(BOOLEAN) =>
             /\ last_call'.send_cbs = <<>>
             /\ cb_count' = cb_count
             /\ Ids(send_queue'.pending) \cup Ids(send_queue'.in_progress) = Enqueued
             /\ last_call'.ret = "OK" => send_queue'.in_progress = <<>>
       /\ \A k \in DOMAIN last_call'.send_cbs :
             (\/ last_call'.send_cbs[k].mq = "MESSAGE_QUEUE_CANCELLED"
              \/ last_call'.send_cbs[k].result = "CANCELLED")
                => last_call'.op = "destroy"]_vars

\* A stop that moved a dispatched task back; its callback has not fired.
C12_Witness ==
    /\ last_call.op = "stop"
    /\ last_call.ret = "OK"
    /\ Len(send_queue.pending) = 1
    /\ send_queue.pending[1].is_destroyed
    /\ cb_count[send_queue.pending[1].id] = 0

\* C13: destroy, in whatever state, completes every task still enqueued
\* once with (CANCELLED, MESSENGER_DESTROYED) and leaves send_error_count
\* as it was.
C13_DestroyCancelsEveryTask ==
    [][\A move_ok \in BOOLEAN :
          amqp_messenger_destroy(move_ok) =>
             /\ Len(last_call'.send_cbs) = Cardinality(Enqueued)
             /\ \A id \in Enqueued :
                   \E k \in DOMAIN last_call'.send_cbs :
                      /\ last_call'.send_cbs[k].id = id
                      /\ last_call'.send_cbs[k].result = "CANCELLED"
                      /\ last_call'.send_cbs[k].reason = "MESSENGER_DESTROYED"
             /\ instance'.send_error_count = instance.send_error_count]_vars

\* The callbacks lead from one state to another by actual transitions.
Chain(cbs, from, to) ==
    IF cbs = <<>>
    THEN to = from
    ELSE /\ cbs[1][1] = from
         /\ cbs[Len(cbs)][2] = to
         /\ \A i \in DOMAIN cbs : cbs[i][1] # cbs[i][2]
         /\ \A i \in 1..(Len(cbs) - 1) : cbs[i + 1][1] = cbs[i][2]

\* C14: the state-changed callbacks of a call are its state transitions, in
\* order, each with previous # new and previous equal to the new state of
\* the one before (the state before the call for the first); a call that
\* leaves the state alone fires none.
C14_CallbackPerTransition ==
    [][now' = now =>
          Chain(last_call'.state_cbs, instance.state, instance'.state)]_vars

\* A stop in ERROR whose move back fails: two transitions, two callbacks,
\* and the state it started from at the end.
C14_Witness ==
    /\ last_call.op = "stop"
    /\ last_call.state_cbs = << <<"ERROR", "STOPPING">>, <<"STOPPING", "ERROR">> >>

\* C15: subscribe and unsubscribe change only the inbound callback and
\* receive_messages; a receiver appears only in a do_work tick in STARTED,
\* and disappears only in such a tick when receive_messages is clear or in
\* the teardown of stop; after a tick that ends in STARTED with no failed
\* creation a receiver exists iff receive_messages is set; in STOPPED there
\* is no receiver.
C15_ReceiverFollowsFlag ==
    [][/\ (Subscribe \/ amqp_messenger_unsubscribe_for_messages) =>
             \A f \in DOMAIN instance \ {"receive_messages",
                                         "on_message_received_callback"} :
                instance'[f] = instance[f]
       /\ (~instance.message_receiver /\ instance'.message_receiver) =>
             /\ last_call'.op = "do_work"
             /\ instance'.state = "STARTED"
             /\ instance.receive_messages
       /\ (instance.message_receiver /\ ~instance'.message_receiver) =>
             \/ /\ last_call'.op = "do_work"
                /\ instance'.state = "STARTED"
                /\ ~instance.receive_messages
             \/ last_call'.op \in {"stop", "destroy"}
       /\ \A in \in DoWorkInputs :
             (/\ amqp_messenger_do_work(in[1], in[2], in[3], {}, "CONTINUE")
              /\ instance'.state = "STARTED"
              /\ in[1] = "OK")
                => (instance'.message_receiver <=> instance'.receive_messages)
       /\ instance'.state = "STOPPED" => ~instance'.message_receiver]_vars

\* A tick in STARTED after which the receiver and its link exist for a
\* subscribed messenger.
C15_Witness ==
    /\ last_call.op = "do_work"
    /\ instance.state = "STARTED"
    /\ instance.receive_messages
    /\ instance.message_receiver
    /\ instance.receiver_link
\* C18: after subscribe and start, with a cloud that answers the GET with a
\* body and the PUT with status 200, the do_work ticks eventually bring the
\* subscription state to SUBSCRIBED.
C18_EventuallySubscribed ==
    <>(twin.subscription_state = "SUBSCRIBED")

\* The inputs of a twin tick in which no call fails.
TwinDoWorkInputs ==
    {<<ctx_ok, add_ok, alloc_ok>> : ctx_ok \in BOOLEAN, add_ok \in BOOLEAN,
                                    alloc_ok \in BOOLEAN}

WaitingStates == {"GETTING_COMPLETE_PROPERTIES", "SUBSCRIBING", "UNSUBSCRIBING"}

\* The requests of a call that amqp_messenger_send_async accepted.
Issued(call) ==
    LET accepted(r) == r.accepted IN SelectSeq(call.requests, accepted)

\* What a twin tick does to the subscription; with_failed_sends: the ticks
\* in which a send completes with a failure are looked at as well.
SubscriptionTick(with_failed_sends) ==
    \A in \in TwinDoWorkInputs :
        (/\ twin_messenger_do_work(in[1], in[2], in[3], "OK", "NONE", now, {},
                                   "CONTINUE", "CONTINUE")
         /\ with_failed_sends \/ last_call'.send_cbs = <<>>)
        => LET sub  == twin.subscription_state
               next == twin'.subscription_state
               reqs == Issued(twin_call')
           IN  /\ Len(twin_call'.requests) <= 1
               /\ reqs # <<>> =>
                      \/ /\ sub = "GET_COMPLETE_PROPERTIES" /\ reqs[1].type = "GET"
                         /\ next = "GETTING_COMPLETE_PROPERTIES"
                      \/ /\ sub = "SUBSCRIBE_FOR_UPDATES" /\ reqs[1].type = "PUT"
                         /\ next = "SUBSCRIBING"
                      \/ /\ sub = "UNSUBSCRIBE" /\ reqs[1].type = "PUT"
                         /\ next = "UNSUBSCRIBING"
               /\ next # sub => reqs # <<>>
               /\ sub \in {"NOT_SUBSCRIBED", "SUBSCRIBED"} \cup WaitingStates =>
                      twin_call'.requests = <<>> /\ next = sub

C20_GetResponse ==
    [][\A m \in InboundMessages :
        (/\ on_message_received_internal_callback(m[1], m[2], m[3], m[4], m[5], m[6])
         /\ m[1] /\ m[2]
         /\ instance.on_message_received_callback
         /\ m[3] \in Range(twin.operations)
         /\ twin_ctx[m[3]].type = "GET"
         /\ twin.subscription_state = "GETTING_COMPLETE_PROPERTIES")
        => IF m[6]
           THEN /\ twin_call'.delta_cbs =
                       <<[update_type |-> "COMPLETE", has_body |-> TRUE]>>
                /\ twin'.subscription_state = "SUBSCRIBE_FOR_UPDATES"
                /\ twin'.subscription_error_count = 0
           ELSE /\ twin_call'.disposition = "REJECTED"
                /\ twin'.subscription_state = "GET_COMPLETE_PROPERTIES"
                /\ twin'.subscription_error_count = twin.subscription_error_count + 1
      ]_vars

C20_Witness ==
    /\ twin_call.op = "message_received"
    /\ twin_call.disposition = "REJECTED"
    /\ twin_call.delta_cbs = <<[update_type |-> "COMPLETE", has_body |-> FALSE]>>
    /\ twin.subscription_state = "GET_COMPLETE_PROPERTIES"
    /\ twin.subscription_error_count = 1
    /\ twin.operations = <<>>

\* C21: a response matching the live PUT of the subscription in SUBSCRIBING:
\* with a status code in 200..299 the state becomes SUBSCRIBED and the error
\* counter 0; with none or another status code the state returns to
\* SUBSCRIBE_FOR_UPDATES and the counter grows by one.
C21_PutResponse ==
    [][\A m \in InboundMessages :
        (/\ on_message_received_internal_callback(m[1], m[2], m[3], m[4], m[5], m[6])
         /\ m[1] /\ m[2]
         /\ instance.on_message_received_callback
         /\ m[3] \in Range(twin.operations)
         /\ twin_ctx[m[3]].type = "PUT"
         /\ twin.subscription_state = "SUBSCRIBING")
        => IF Succeeded(m[4], m[5])
           THEN /\ twin'.subscription_state = "SUBSCRIBED"
                /\ twin'.subscription_error_count = 0
           ELSE /\ twin'.subscription_state = "SUBSCRIBE_FOR_UPDATES"
                /\ twin'.subscription_error_count = twin.subscription_error_count + 1
      ]_vars

\* --------------------------------------- the twin handler on its own ----
\* on_amqp_message_received called with the twin messenger as its context
\* and a message that answers a request the cloud has seen: the function as
\* it stands, without the AMQP messenger's receiver in front of it.
ResponseToTwin(c, has_status_code, status_code, has_twin_report) ==
    /\ TwinAlive
    /\ c \in Range(twin.operations)
    /\ twin_ctx[c].sent
    /\ has_status_code \/ status_code = 200
    /\ LET m == on_amqp_message_received(TwinRunning(twin, twin_ctx), TRUE, c,
                                         has_status_code, status_code,
                                         has_twin_report)
       IN  /\ twin' = m.tr.twin
           /\ twin_ctx' = m.tr.ctx
           /\ twin_call' = [TwinCall("on_amqp_message_received", "VOID")
                               EXCEPT !.delta_cbs = m.tr.delta_cbs,
                                      !.report_cbs = m.tr.report_cbs,
                                      !.state_cbs = m.tr.state_cbs,
                                      !.disposition = m.disposition]
    /\ UNCHANGED amqp_vars

\* Responses: <<correlation id, has_status_code, status_code,
\* has_twin_report>>.
Responses ==
    {<<c, FALSE, 200, b>> : c \in 1..MaxTwinOps, b \in BOOLEAN}
    \cup {<<c, TRUE, code, b>> : c \in 1..MaxTwinOps, code \in StatusCodes, b \in BOOLEAN}

TwinHandler ==
    \E m \in Responses : ResponseToTwin(m[1], m[2], m[3], m[4])

\* The subscription and its end with nothing failing, and the handler called
\* with the response to any request that is waited for.
NextTwinHandler ==
    \/ TwinStart
    \/ TwinSubscribe
    \/ twin_messenger_unsubscribe
    \/ TwinDoWork({TRUE})
    \/ TwinLinkStateChanged({"OPEN"})
    \/ TwinSendSucceeds
    \/ TwinHandler

SpecTwinHandler == Init /\ [][NextTwinHandler]_vars

CapDoWork ==
    /\ IssuesRequest(twin) => Len(twin_ctx) < MaxCapOps
    /\ \E ctx_ok \in BOOLEAN, add_ok \in BOOLEAN, alloc_ok \in BOOLEAN :
           twin_messenger_do_work(ctx_ok, add_ok, alloc_ok, "OK", "NONE", now, {},
                                  "CONTINUE", "CONTINUE")

\* The library reports that a request could not be sent.
CapSendFails ==
    \E id \in lib_sends :
        twin_send_complete(id, "MESSAGE_SEND_ERROR", 0, "CONTINUE")

\* The owner stops a messenger that is not stopped.
CapStop ==
    /\ instance.state # "STOPPED"
    /\ TwinStop

\* The subscription with sends that fail, and the owner's stop and start.
NextCap ==
    \/ TwinStart
    \/ CapStop
    \/ SubscribeOnce
    \/ CapDoWork
    \/ TwinLinkOpens
    \/ CapSendFails

SpecCap == Init /\ [][NextCap]_vars

\* The inputs of a tick of SpecCap: <<ctx_ok, add_ok, alloc_ok>>.
CapDoWorkInputs == BOOLEAN \X BOOLEAN \X BOOLEAN

CapTick(i) ==
    twin_messenger_do_work(i[1], i[2], i[3], "OK", "NONE", now, {}, "CONTINUE",
                           "CONTINUE")

\* The state callbacks the twin messenger fires in a call when it only
\* mirrors the AMQP messenger.
Mirrored == StateChanges(TwinRunning(twin, twin_ctx), last_call'.state_cbs).state_cbs

\* With a count below the cap, the subscription step of a tick moves the
\* twin messenger to ERROR only if creating, queueing or sending the
\* request fails.
BelowCap(i) ==
    (twin.subscription_error_count < DEFAULT_MAX_TWIN_SUBSCRIPTION_ERROR_COUNT
     /\ i[1] /\ i[2] /\ i[3])
    => twin_call'.state_cbs = Mirrored

\* C23: on a tick with subscription_error_count >= 3 the twin state becomes
\* ERROR and no subscription request is issued; with a count below 3 the
\* subscription step sets ERROR only if creating, queueing or sending the
\* request fails.
C23_CapTick ==
    [][\A i \in CapDoWorkInputs :
        CapTick(i) =>
            /\ twin.subscription_error_count >= DEFAULT_MAX_TWIN_SUBSCRIPTION_ERROR_COUNT
               => twin'.state = "ERROR" /\ twin_call'.requests = <<>>
            /\ BelowCap(i)
      ]_vars

\* C23 as amended: on a tick with a count of 3 or more the subscription step
\* sets the twin state to ERROR and issues no request; the state is ERROR
\* after the tick unless the AMQP messenger changed its state later in the
\* tick, and then it is the image of the AMQP messenger's state.
C23_CapStep ==
    [][\A i \in CapDoWorkInputs :
        CapTick(i) =>
            /\ twin.subscription_error_count >= DEFAULT_MAX_TWIN_SUBSCRIPTION_ERROR_COUNT
               => /\ twin_call'.requests = <<>>
                  /\ \/ twin.state = "ERROR"
                     \/ /\ twin_call'.state_cbs # <<>>
                        /\ twin_call'.state_cbs[1] = <<twin.state, "ERROR">>
                  /\ IF last_call'.state_cbs = <<>>
                     THEN twin'.state = "ERROR"
                     ELSE twin'.state = get_twin_state_from(instance'.state)
            /\ BelowCap(i)
      ]_vars

C23_Witness ==
    /\ twin_call.op = "do_work"
    /\ twin.subscription_error_count >= DEFAULT_MAX_TWIN_SUBSCRIPTION_ERROR_COUNT
    /\ twin.subscription_state = "GET_COMPLETE_PROPERTIES"
    /\ twin_call.state_cbs = <<<<"STARTED", "ERROR">>>>
    /\ twin_call.requests = <<>>
    /\ twin.state = "ERROR"

\* The inputs of a send completion: <<id, send_result, stale, tub>>.
SendCompleteInputs ==
    lib_sends \X {"MESSAGE_SEND_OK", "MESSAGE_SEND_ERROR"}
              \X ({-1, 0} \cup Ids(send_queue.in_progress)) \X {"CONTINUE", "ABORT"}

\* The completions of the step that report a failed send, other than by the
\* messenger's destruction, of a GET that is in the operations list.
FailedGets ==
    {c \in Range(twin.operations) :
        /\ twin_ctx[c].type = "GET"
        /\ \E k \in 1..Len(last_call'.send_cbs) :
               /\ last_call'.send_cbs[k].id = twin_ctx[c].task
               /\ last_call'.send_cbs[k].result # "SUCCESS"
               /\ last_call'.send_cbs[k].reason # "MESSENGER_DESTROYED"}

\* The subscription is rolled back and the contexts of the failed GETs are
\* removed and destroyed.
RolledBack ==
    /\ twin'.subscription_state = "GET_COMPLETE_PROPERTIES"
    /\ twin'.subscription_error_count = twin.subscription_error_count + 1
    /\ \A c \in FailedGets :
           c \notin Range(twin'.operations) /\ twin_ctx'[c].frees = 1

\* C24: the send of a subscription GET completes with an error other than
\* the messenger's destruction while the state is GETTING_COMPLETE_PROPERTIES:
\* the state rolls back to GET_COMPLETE_PROPERTIES, the error counter grows
\* by one and the GET is removed and destroyed; a successful completion
\* changes neither the subscription state, the counter nor the operations
\* list.
C24_GetSendCompletion ==
    [][/\ \A i \in SendCompleteInputs :
            twin_send_complete(i[1], i[2], i[3], i[4]) =>
                /\ (twin.subscription_state = "GETTING_COMPLETE_PROPERTIES"
                    /\ FailedGets # {}) => RolledBack
                /\ (\A k \in 1..Len(last_call'.send_cbs) :
                        last_call'.send_cbs[k].result = "SUCCESS")
                   => /\ twin'.subscription_state = twin.subscription_state
                      /\ twin'.subscription_error_count = twin.subscription_error_count
                      /\ twin'.operations = twin.operations
       /\ \A in \in TwinDoWorkInputs :
            (/\ twin_messenger_do_work(in[1], in[2], in[3], "OK", "NONE", now, {},
                                       "CONTINUE", "CONTINUE")
             /\ twin.subscription_state = "GETTING_COMPLETE_PROPERTIES"
             /\ FailedGets # {})
            => RolledBack
      ]_vars

C24_Witness ==
    /\ twin_call.op = "send_complete"
    /\ Len(last_call.send_cbs) = 1
    /\ last_call.send_cbs[1].result = "ERROR"
    /\ last_call.send_cbs[1].reason = "FAIL_SENDING"
    /\ twin.subscription_state = "GET_COMPLETE_PROPERTIES"
    /\ twin.subscription_error_count = 1
    /\ twin.operations = <<>>
    /\ Len(twin_ctx) = 1
    /\ twin_ctx[1].type = "GET"
    /\ twin_ctx[1].frees = 1

\* C25: twin_messenger_subscribe with a callback in a subscription state
\* other than NOT_SUBSCRIBED returns success and changes nothing (delta
\* callback, subscription state, receive flag and callback of the AMQP
\* messenger); in NOT_SUBSCRIBED it installs the delta callback, enables
\* receiving and sets GET_COMPLETE_PROPERTIES, or fails and leaves
\* NOT_SUBSCRIBED with no delta callback installed.
C25_SubscribeFrame ==
    [][\A args_ok \in BOOLEAN :
        twin_messenger_subscribe(args_ok) =>
            IF twin.subscription_state # "NOT_SUBSCRIBED"
            THEN args_ok => /\ twin_call'.ret = "OK"
                            /\ twin' = twin
                            /\ twin_ctx' = twin_ctx
                            /\ instance' = instance
            ELSE IF twin_call'.ret = "OK"
            THEN /\ twin'.on_message_received_callback
                 /\ twin'.subscription_state = "GET_COMPLETE_PROPERTIES"
                 /\ instance'.receive_messages
                 /\ instance'.on_message_received_callback
            ELSE /\ twin'.subscription_state = "NOT_SUBSCRIBED"
                 /\ ~twin'.on_message_received_callback
      ]_vars

\* subscribe was called again after unsubscribe and changed nothing.
C25_Witness ==
    /\ twin_call.op = "subscribe"
    /\ twin_call.ret = "OK"
    /\ twin.subscription_state = "UNSUBSCRIBING"
    /\ ~twin.on_message_received_callback
    /\ ~instance.receive_messages

\* ------------------------------------------------------ reported state ----
\* Mutation of twin_messenger_report_state_async: a context whose request
\* could not be sent stays in the operations list.
report_state_without_removal(ctx_ok, add_ok, alloc_ok) ==
    /\ TwinAlive
    /\ ctx_ok \/ (add_ok /\ alloc_ok)
    /\ add_ok \/ alloc_ok
    /\ IF ~ctx_ok
       THEN /\ twin_call' = TwinCall("report_state", "FAILURE")
            /\ UNCHANGED <<amqp_vars, twin, twin_ctx>>
       ELSE LET c  == Len(twin_ctx) + 1
                x1 == create_twin_operation_context(twin_ctx, "PATCH")
            IN  IF ~add_ok
                THEN /\ twin_ctx' = destroy_twin_operation_context(x1, c)
                     /\ twin_call' = TwinCall("report_state", "FAILURE")
                     /\ UNCHANGED <<amqp_vars, twin>>
                ELSE LET s == send_twin_operation_request(x1, c, send_queue, next_id,
                                                          cb_count, alloc_ok)
                     IN  /\ send_queue' = s.queue
                         /\ next_id' = s.next_id
                         /\ cb_count' = s.counts
                         /\ last_call' = Call("send_async", s.ret, <<>>, <<>>)
                         /\ twin' = add_twin_operation_context_to_queue(twin, c)
                         /\ twin_ctx' = IF s.ret = "OK" THEN s.ctx
                                        ELSE destroy_twin_operation_context(s.ctx, c)
                         /\ twin_call' = [TwinCall("report_state", s.ret)
                                             EXCEPT !.requests =
                                                 <<[type |-> "PATCH",
                                                    accepted |-> s.ret = "OK"]>>]
                         /\ UNCHANGED <<instance, lib_sends, now, status, failures>>

\* twin_messenger_report_state_async(twin_msgr_handle, data, callback,
\* context) with data and a callback.  ctx_ok: create_twin_operation_context
\* worked; add_ok: add_twin_operation_context_to_queue worked; alloc_ok:
\* send_twin_operation_request worked.
twin_messenger_report_state_async(ctx_ok, add_ok, alloc_ok) ==
    /\ TwinAlive
    /\ ctx_ok \/ (add_ok /\ alloc_ok)
    /\ add_ok \/ alloc_ok
    /\ IF ~ctx_ok
       THEN /\ twin_call' = TwinCall("report_state", "FAILURE")
            /\ UNCHANGED <<amqp_vars, twin, twin_ctx>>
       ELSE LET c  == Len(twin_ctx) + 1
                x1 == create_twin_operation_context(twin_ctx, "PATCH")
            IN  IF ~add_ok
                THEN /\ twin_ctx' = destroy_twin_operation_context(x1, c)
                     /\ twin_call' = TwinCall("report_state", "FAILURE")
                     /\ UNCHANGED <<amqp_vars, twin>>
                ELSE LET s == send_twin_operation_request(x1, c, send_queue, next_id,
                                                          cb_count, alloc_ok)
                     IN  /\ send_queue' = s.queue
                         /\ next_id' = s.next_id
                         /\ cb_count' = s.counts
                         /\ last_call' = Call("send_async", s.ret, <<>>, <<>>)
                         /\ IF s.ret = "OK"
                            THEN /\ twin' = add_twin_operation_context_to_queue(twin, c)
                                 /\ twin_ctx' = s.ctx
                            ELSE /\ twin' = remove_twin_operation_context_from_queue(
                                                add_twin_operation_context_to_queue(twin, c),
                                                c)
                                 /\ twin_ctx' = destroy_twin_operation_context(s.ctx, c)
                         /\ twin_call' = [TwinCall("report_state", s.ret)
                                             EXCEPT !.requests =
                                                 <<[type |-> "PATCH",
                                                    accepted |-> s.ret = "OK"]>>]
                         /\ UNCHANGED <<instance, lib_sends, now, status, failures>>

\* The loop of twin_messenger_get_send_status over the operations list: it
\* reads the head item and never moves to the next one, so it ends only
\* when the list is empty, with no PATCH counted.
PendingPatchLoop(operations) ==
    IF operations = <<>>
    THEN [ends |-> TRUE, pending_patch_count |-> 0]
    ELSE [ends |-> FALSE, pending_patch_count |-> 0]

\* What twin_messenger_get_send_status gives for an operations list: the
\* value returned through send_status, or HANG for a call that never
\* returns.
TwinSendStatusOf(operations) ==
    LET loop == PendingPatchLoop(operations)
    IN  IF ~loop.ends THEN "HANG"
        ELSE IF loop.pending_patch_count > 0
        THEN "TWIN_MESSENGER_SEND_STATUS_BUSY"
        ELSE "TWIN_MESSENGER_SEND_STATUS_IDLE"

\* twin_messenger_get_send_status(twin_msgr_handle, send_status); the value
\* returned through send_status is kept as the call's return value.
twin_messenger_get_send_status ==
    /\ TwinAlive
    /\ twin_call' = TwinCall("get_send_status", TwinSendStatusOf(twin.operations))
    /\ UNCHANGED <<amqp_vars, twin, twin_ctx>>

\* cancel_all_pending_twin_operations: every context in the list is removed
\* and destroyed, the callback of a PATCH is told of the destruction.
RECURSIVE cancel_all_pending_twin_operations(_)
cancel_all_pending_twin_operations(tr) ==
    IF tr.twin.operations = <<>> THEN tr
    ELSE LET c  == Head(tr.twin.operations)
             t1 == [tr EXCEPT !.twin.operations = Tail(@)]
             t2 == IF t1.ctx[c].type = "PATCH"
                   THEN [t1 EXCEPT !.report_cbs =
                            Append(@, [c |-> c, result |-> "CANCELLED",
                                       reason |-> "MESSENGER_DESTROYED",
                                       status_code |-> 0])]
                   ELSE t1
         IN  cancel_all_pending_twin_operations(
                 [t2 EXCEPT !.ctx = destroy_twin_operation_context(@, c)])

\* twin_messenger_destroy(twin_msgr_handle): amqp_messenger_destroy, whose
\* callbacks reach the twin messenger, then
\* cancel_all_pending_twin_operations.
twin_messenger_destroy(move_ok, tub) ==
    /\ TwinAlive
    /\ amqp_messenger_destroy(move_ok)
    /\ LET t1 == SendCompletions(
                     StateChanges(TwinRunning(twin, twin_ctx), last_call'.state_cbs),
                     last_call'.send_cbs)
           t2 == cancel_all_pending_twin_operations(t1)
       IN  /\ ReadsFreedContext(twin_ctx, last_call'.send_cbs) \/ tub = "CONTINUE"
           /\ twin' = t2.twin
           /\ twin_ctx' = t2.ctx
           /\ twin_call' = [TwinCall("destroy", IF tub = "ABORT" THEN "ABORT" ELSE "VOID")
                               EXCEPT !.report_cbs = t2.report_cbs,
                                      !.state_cbs = t2.state_cbs]

\* The owner reports a state while fewer than MaxReportOps contexts exist.
ReportState ==
    /\ Len(twin_ctx) < MaxReportOps
    /\ \E ctx_ok \in BOOLEAN, add_ok \in BOOLEAN, alloc_ok \in BOOLEAN :
           twin_messenger_report_state_async(ctx_ok, add_ok, alloc_ok)

ReportDoWork ==
    /\ IssuesRequest(twin) => Len(twin_ctx) < MaxReportOps
    /\ twin_messenger_do_work(TRUE, TRUE, TRUE, "OK", "NONE", now, {}, "CONTINUE",
                              "CONTINUE")

\* The cloud answers a request it has seen, with a status code or without;
\* the answer carries the twin document.
ReportResponses ==
    {<<TRUE, TRUE, c, has_status_code, 200, TRUE>> :
        c \in KnownCorrelationIds \ {0}, has_status_code \in BOOLEAN}

ResponseReceived ==
    \E m \in ReportResponses :
        on_message_received_internal_callback(m[1], m[2], m[3], m[4], m[5], m[6])

TwinGetSendStatus == twin_messenger_get_send_status

TwinDestroy ==
    \E move_ok \in BOOLEAN, tub \in {"CONTINUE", "ABORT"} :
        twin_messenger_destroy(move_ok, tub)

\* Reported states and the subscription they need for their responses:
\* start, ticks, links that open, send completions, inbound messages, the
\* send status and the messenger's destruction.
NextReport ==
    \/ TwinStart
    \/ SubscribeOnce
    \/ ReportState
    \/ ReportDoWork
    \/ TwinLinkOpens
    \/ TwinSendComplete({"MESSAGE_SEND_OK", "MESSAGE_SEND_ERROR"})
    \/ ResponseReceived
    \/ TwinGetSendStatus
    \/ TwinDestroy

SpecReport == Init /\ [][NextReport]_vars

\* The operations list holds a PATCH.
HasPatch(operations, ctx) ==
    \E k \in 1..Len(operations) : ctx[operations[k]].type = "PATCH"

\* What a response matching a PATCH in the operations list does; idle_when:
\* the states after the response in which the send status has to be IDLE.
PatchResponse(idle_when(_, _)) ==
    \A m \in ReportResponses :
        (/\ on_message_received_internal_callback(m[1], m[2], m[3], m[4], m[5], m[6])
         /\ instance.on_message_received_callback
         /\ m[3] \in Range(twin.operations)
         /\ twin_ctx[m[3]].type = "PATCH")
        => /\ IF m[4]
              THEN /\ twin_call'.report_cbs =
                          <<[c |-> m[3], result |-> "SUCCESS", reason |-> "NONE",
                             status_code |-> m[5]]>>
                   /\ twin_call'.disposition = "ACCEPTED"
              ELSE /\ twin_call'.report_cbs =
                          <<[c |-> m[3], result |-> "ERROR",
                             reason |-> "INVALID_RESPONSE", status_code |-> 0]>>
                   /\ twin_call'.disposition = "REJECTED"
           /\ m[3] \notin Range(twin'.operations)
           /\ twin_ctx'[m[3]].frees = 1
           /\ idle_when(twin'.operations, twin_ctx')
              => TwinSendStatusOf(twin'.operations) = "TWIN_MESSENGER_SEND_STATUS_IDLE"

NoPatchLeft(operations, ctx) == ~HasPatch(operations, ctx)

NothingLeft(operations, ctx) == operations = <<>>

C27_ContextDestroyedOnce ==
    [][/\ \A c \in 1..Len(twin_ctx') :
            /\ twin_ctx'[c].frees <= 1
            /\ c \in Range(twin'.operations) => twin_ctx'[c].frees = 0
            /\ twin_call'.op = "destroy" => twin_ctx'[c].frees = 1
       /\ last_call' # last_call => ~ReadsFreedContext(twin_ctx, last_call'.send_cbs)
      ]_vars

\* The report-state callbacks a call fired for the context c.
ReportCallbacksFor(fired, c) == SelectSeq(fired, LAMBDA f : f.c = c)

\* C28: twin_messenger_destroy fires the callback of every PATCH in the
\* operations list exactly once, with (CANCELLED, MESSENGER_DESTROYED, 0),
\* wherever the AMQP send of the PATCH stands; GET and PUT contexts get no
\* callback; no context of the list is left undestroyed.
C28_DestroyCancelsEveryPatch ==
    [][(status = "created" /\ twin_call'.op = "destroy")
       => \A c \in Range(twin.operations) :
              /\ twin_ctx'[c].frees >= 1
              /\ IF twin_ctx[c].type = "PATCH"
                 THEN ReportCallbacksFor(twin_call'.report_cbs, c) =
                          <<[c |-> c, result |-> "CANCELLED",
                             reason |-> "MESSENGER_DESTROYED", status_code |-> 0]>>
                 ELSE ReportCallbacksFor(twin_call'.report_cbs, c) = <<>>
      ]_vars

\* C29: twin_messenger_get_send_status gives BUSY when the operations list
\* holds a PATCH and IDLE when it holds none, a list of GET and PUT contexts
\* only included, whatever the list holds.
C29_BusyIffPatch ==
    twin_call.op = "get_send_status"
    => twin_call.ret = IF HasPatch(twin.operations, twin_ctx)
                       THEN "TWIN_MESSENGER_SEND_STATUS_BUSY"
                       ELSE "TWIN_MESSENGER_SEND_STATUS_IDLE"

\* The twin state after each of the state callbacks an AMQP call fired, in
\* order.
MirroredStates(cbs) ==
    [n \in 1..Len(cbs) |->
        StateChanges(TwinRunning(twin, twin_ctx), SubSeq(cbs, 1, n)).twin.state]

\* C30: the twin state mirrors the AMQP messenger state: after every state
\* transition of the AMQP messenger the twin state is the new AMQP state
\* (STOPPED, STOPPING, STARTING, STARTED and ERROR map to themselves), at
\* the callback and when the call returns, and in every state the twin
\* state is the AMQP state or ERROR.
C30_TwinMirrorsAmqp ==
    [][/\ twin'.state \in {instance'.state, "ERROR"}
       /\ last_call' # last_call
          => /\ \A n \in 1..Len(last_call'.state_cbs) :
                    MirroredStates(last_call'.state_cbs)[n] = last_call'.state_cbs[n][2]
             /\ last_call'.state_cbs # <<>> => twin'.state = instance'.state
      ]_vars

C30_Witness ==
    /\ last_call.op = "stop"
    /\ last_call.state_cbs = <<<<"STARTED", "STOPPING">>, <<"STOPPING", "STOPPED">>>>
    /\ twin_call.state_cbs = last_call.state_cbs
    /\ twin.state = "STOPPED"
    /\ instance.state = "STOPPED"

\* ----------------------------------------------- the twin state ERROR ----
\* Every call of the owner around a twin state ERROR: start, stop,
\* subscribe, unsubscribe, reported states, ticks, links that open and
\* sends that fail.
NextSticky ==
    \/ TwinStart
    \/ CapStop
    \/ TwinSubscribe
    \/ twin_messenger_unsubscribe
    \/ ReportState
    \/ CapDoWork
    \/ TwinLinkOpens
    \/ CapSendFails

SpecSticky == Init /\ [][NextSticky]_vars

\* C31 (as stated): once the twin state is ERROR it stays ERROR under every
\* later call and AMQP state change, as long as the messenger is not
\* destroyed.
C31_ErrorIsSticky ==
    [][(twin.state = "ERROR" /\ status' = "created") => twin'.state = "ERROR"]_vars

\* C31 (amended): once the twin state is ERROR it stays ERROR until the
\* AMQP messenger changes its state; a call in which the AMQP messenger
\* changes its state leaves the twin state equal to the new AMQP state.
C31_ErrorUntilAmqpTransition ==
    [][(twin.state = "ERROR" /\ status' = "created")
       => \/ twin'.state = "ERROR"
          \/ /\ last_call' # last_call
             /\ last_call'.state_cbs # <<>>
             /\ twin'.state = instance'.state
      ]_vars

C31_Witness ==
    /\ twin.state = "ERROR"
    /\ instance.state = "STARTED"
    /\ twin.subscription_error_count >= DEFAULT_MAX_TWIN_SUBSCRIPTION_ERROR_COUNT
    /\ twin_call.op = "do_work"
    /\ twin_call.state_cbs = <<>>
    /\ twin_call.requests = <<>>

\* The inputs of twin_messenger_report_state_async: <<ctx_ok, add_ok,
\* alloc_ok>>.
ReportStateInputs == BOOLEAN \X BOOLEAN \X BOOLEAN

\* C32: a twin_messenger_report_state_async call that returns success adds
\* exactly one PATCH context, whose correlation id is that of no other
\* context in the list, and enqueues exactly one AMQP message; a call that
\* returns failure leaves the operations list and the send queue as they
\* were and destroys the context it created; no call fires the completion
\* callback.
C32_ReportStateResult ==
    [][\A i \in ReportStateInputs :
          twin_messenger_report_state_async(i[1], i[2], i[3])
          => /\ twin_call'.report_cbs = <<>>
             /\ IF twin_call'.ret = "OK"
                THEN /\ Len(twin_ctx') = Len(twin_ctx) + 1
                     /\ twin'.operations = Append(twin.operations, Len(twin_ctx'))
                     /\ Len(twin_ctx') \notin Range(twin.operations)
                     /\ twin_ctx'[Len(twin_ctx')].type = "PATCH"
                     /\ twin_ctx'[Len(twin_ctx')].frees = 0
                     /\ Len(send_queue'.pending) = Len(send_queue.pending) + 1
                     /\ SubSeq(send_queue'.pending, 1, Len(send_queue.pending)) =
                            send_queue.pending
                     /\ send_queue'.in_progress = send_queue.in_progress
                     /\ twin_ctx'[Len(twin_ctx')].task =
                            send_queue'.pending[Len(send_queue'.pending)].id
                ELSE /\ twin'.operations = twin.operations
                     /\ send_queue' = send_queue
                     /\ \A c \in 1..Len(twin_ctx') :
                            c > Len(twin_ctx) => twin_ctx'[c].frees = 1
      ]_vars

C32_Witness ==
    /\ twin_call.op = "report_state"
    /\ twin_call.ret = "FAILURE"
    /\ twin_call.requests = <<[type |-> "PATCH", accepted |-> FALSE]>>
    /\ twin.operations # <<>>
    /\ send_queue.pending # <<>>
    /\ twin_ctx[Len(twin_ctx)].frees = 1
    /\ Len(twin_ctx) \notin Range(twin.operations)

\* The inbound messages that parse, with no correlation id and one data
\* body.
DeltaMessages ==
    {m \in InboundMessages : m[1] /\ m[2] /\ m[3] = 0 /\ m[6]}

\* C33: an inbound message with no correlation id and exactly one data body
\* is delivered once to the installed delta callback as a PARTIAL update
\* with the body, is accepted, fires no other callback and leaves the
\* operations list, the subscription state and the subscription error
\* counter as they were.
C33_DeltaDelivered ==
    [][\A m \in DeltaMessages :
          (/\ on_message_received_internal_callback(m[1], m[2], m[3], m[4], m[5], m[6])
           /\ instance.on_message_received_callback
           /\ twin.on_message_received_callback)
          => /\ twin_call'.delta_cbs = <<[update_type |-> "PARTIAL", has_body |-> TRUE]>>
             /\ twin_call'.disposition = "ACCEPTED"
             /\ last_call'.ret = "ACCEPTED"
             /\ twin_call'.report_cbs = <<>>
             /\ twin_call'.state_cbs = <<>>
             /\ twin'.operations = twin.operations
             /\ twin'.subscription_state = twin.subscription_state
             /\ twin'.subscription_error_count = twin.subscription_error_count
             /\ twin_ctx' = twin_ctx
      ]_vars

C33_Witness ==
    /\ twin_call.op = "message_received"
    /\ twin_call.delta_cbs = <<[update_type |-> "PARTIAL", has_body |-> TRUE]>>
    /\ twin_call.disposition = "ACCEPTED"
    /\ twin.subscription_state = "GETTING_COMPLETE_PROPERTIES"
    /\ twin.operations # <<>>

\* The inbound messages that parse and carry the correlation id of a
\* request the cloud has seen.
CorrelatedMessages ==
    {m \in InboundMessages : m[1] /\ m[2] /\ m[3] # 0}

\* C34: an inbound message whose correlation id matches no context in the
\* operations list is dropped: it is accepted, no callback fires, and the
\* operations list, the contexts, the subscription state, the subscription
\* error counter and the twin state are unchanged.
C34_UnmatchedDropped ==
    [][\A m \in CorrelatedMessages :
          (/\ on_message_received_internal_callback(m[1], m[2], m[3], m[4], m[5], m[6])
           /\ instance.on_message_received_callback
           /\ m[3] \notin Range(twin.operations))
          => /\ twin_call'.disposition = "ACCEPTED"
             /\ last_call'.ret = "ACCEPTED"
             /\ twin_call'.delta_cbs = <<>>
             /\ twin_call'.report_cbs = <<>>
             /\ twin_call'.state_cbs = <<>>
             /\ twin' = twin
             /\ twin_ctx' = twin_ctx
      ]_vars

\* A message was dropped with nothing fired while a request the cloud has
\* seen is no longer in the operations list.
C34_Witness ==
    /\ twin_call.op = "message_received"
    /\ twin_call.disposition = "ACCEPTED"
    /\ twin_call.delta_cbs = <<>>
    /\ twin_call.report_cbs = <<>>
    /\ twin.operations = <<>>
    /\ \E c \in 1..Len(twin_ctx) : twin_ctx[c].sent /\ twin_ctx[c].frees = 1

\* The inputs of a tick of Spec: <<outcome, fails, ub>>.
SendDoWorkInputs ==
    {"OK", "OPEN_FAIL"} \X (SUBSET Ids(send_queue.pending)) \X {"CONTINUE", "ABORT"}

\* The state in which amqp_messenger_do_work chooses its branch: the
\* messenger state after process_state_changes.
ReconciledState == process_state_changes(Running(instance), now).inst.state

\* C35: a tick moves a task from pending to in progress or calls
\* messagesender_send only when, on that tick, the messenger state after
\* reconciliation is STARTED and the sender's last reported state is OPEN;
\* in STOPPED, STARTING, STOPPING and ERROR the tick leaves the send queue
\* as it was and completes nothing, a tick on which reconciliation moves
\* STARTED to ERROR included.
C35_DispatchOnlyStarted ==
    [][\A i \in SendDoWorkInputs :
          amqp_messenger_do_work(i[1], "NONE", now, i[2], i[3])
          => /\ (\/ Ids(send_queue'.in_progress) \ Ids(send_queue.in_progress) # {}
                 \/ lib_sends' # lib_sends
                 \/ send_queue'.pending # send_queue.pending)
                => /\ ReconciledState = "STARTED"
                   /\ instance.message_sender
                   /\ instance.message_sender_current_state = "OPEN"
             /\ ReconciledState # "STARTED"
                => /\ send_queue' = send_queue
                   /\ lib_sends' = lib_sends
                   /\ last_call'.send_cbs = <<>>
      ]_vars

C35_Witness ==
    /\ last_call.op = "do_work"
    /\ last_call.state_cbs = <<<<"STARTED", "ERROR">>>>
    /\ last_call.send_cbs = <<>>
    /\ send_queue.pending # <<>>
    /\ instance.state = "ERROR"

\* ------------------------------------- the message and its send context ----
\* on_message_processing_completed_callback on a task: the calls of
\* message_destroy on its message (none when is_destroyed is set) and of
\* destroy_message_send_context on its context.
CompletionEffects(task) ==
    [message_destroys |-> IF task.is_destroyed THEN 0 ELSE 1, context_frees |-> 1]

\* on_process_message_callback on a task.  send_ok: messagesender_send
\* returned 0; otherwise the task is completed with ERROR before the
\* message is destroyed and is_destroyed is written.
DispatchEffects(task, send_ok) ==
    LET completion == IF send_ok
                      THEN [message_destroys |-> 0, context_frees |-> 0]
                      ELSE CompletionEffects(task)
    IN  [destroyed_before |-> task.is_destroyed,
         message_destroys |-> completion.message_destroys + 1,
         context_frees |-> completion.context_frees,
         writes_after_free |-> completion.context_frees > 0]

\* The tasks a tick in STARTED dispatches: the pending tasks within their
\* enqueue age.
Dispatched ==
    {send_queue.pending[k] :
        k \in {n \in 1..Len(send_queue.pending) :
                  ~IsTimedOut(send_queue, send_queue.pending[n], now)}}

\* The tasks a tick in STARTED completes with TIMEOUT.
Expired ==
    {t \in Range(send_queue.pending) \cup Range(send_queue.in_progress) :
        IsTimedOut(send_queue, t, now)}

\* The message of a task was destroyed by an earlier dispatch.
DestroyedBefore(task) == IF task.is_destroyed THEN 1 ELSE 0

\* C36: the cloned message of a task is destroyed exactly once and its send
\* context is freed exactly once and not written afterwards: on a dispatch,
\* whether messagesender_send succeeds or fails at once, and on a timeout.
C36_MessageDestroyedOnce ==
    [][\A i \in SendDoWorkInputs :
          (amqp_messenger_do_work(i[1], "NONE", now, i[2], i[3])
           /\ ReconciledState = "STARTED")
          => /\ \A task \in Dispatched :
                    LET e == DispatchEffects(task, task.id \notin i[2])
                    IN  /\ DestroyedBefore(task) + e.message_destroys = 1
                        /\ e.context_frees <= 1
                        /\ ~e.writes_after_free
             /\ \A task \in Expired :
                    /\ DestroyedBefore(task) + CompletionEffects(task).message_destroys = 1
                    /\ CompletionEffects(task).context_frees = 1
      ]_vars

\* C37: a task that stop moved back to pending is dispatched again with a
\* message that is still alive: no tick hands messagesender_send a message
\* that an earlier dispatch of the task destroyed.
C37_ResentMessageAlive ==
    [][\A i \in SendDoWorkInputs :
          (amqp_messenger_do_work(i[1], "NONE", now, i[2], i[3])
           /\ ReconciledState = "STARTED")
          => \A task \in Dispatched : ~DispatchEffects(task, TRUE).destroyed_before
      ]_vars

\* C38: twin_messenger_get_send_status returns for every content of the
\* operations list, a non-empty list included: its loop over the list ends.
C38_SendStatusTerminates ==
    twin_call.op = "get_send_status"
    => /\ twin_call.ret # "HANG"
       /\ PendingPatchLoop(twin.operations).ends

\* The operation type of the request a waiting subscription state waits for.
AwaitedType(subscription_state) ==
    IF subscription_state = "GETTING_COMPLETE_PROPERTIES" THEN "GET" ELSE "PUT"

\* C39: while the subscription state is GETTING_COMPLETE_PROPERTIES,
\* SUBSCRIBING or UNSUBSCRIBING the operations list holds a live context of
\* the request that is waited for.
C39_WaitingHasRequest ==
    (/\ TwinAlive
     /\ twin.subscription_state \in
            {"GETTING_COMPLETE_PROPERTIES", "SUBSCRIBING", "UNSUBSCRIBING"})
    => \E c \in Range(twin.operations) :
           /\ twin_ctx[c].type = AwaitedType(twin.subscription_state)
           /\ twin_ctx[c].frees = 0

\* ------------------------------------------------------ unsubscription ----
\* The owner unsubscribes on a started messenger, while the request of the
\* unsubscription can still be issued within MaxTwinOps contexts.
UnsubscribeStarted ==
    /\ instance.state = "STARTED"
    /\ twin.subscription_state \notin {"NOT_SUBSCRIBED", "UNSUBSCRIBE", "UNSUBSCRIBING"}
    /\ Len(twin_ctx) < MaxTwinOps
    /\ twin_messenger_unsubscribe

\* The unsubscription with nothing going wrong: as SpecTwinLive, and the
\* owner unsubscribes at some time after the messenger has started.  The
\* owner's loop calls do_work forever, the links open before the next tick,
\* every send is confirmed and the cloud answers every request the
\* messenger can receive an answer to.
NextUnsubLive ==
    \/ SubscribeOnce
    \/ TwinStart
    \/ TwinTickOk
    \/ TwinLinkOpens
    \/ TwinSendSucceeds
    \/ CloudAnswers
    \/ UnsubscribeStarted
    \/ SubscribeAgain

SpecUnsubLive ==
    /\ Init
    /\ [][NextUnsubLive]_vars
    /\ WF_vars(TwinStart)
    /\ WF_vars(TwinTickOk)
    /\ WF_vars(TwinLinkOpens)
    /\ WF_vars(TwinSendSucceeds)
    /\ WF_vars(CloudAnswers)

\* C40: after twin_messenger_unsubscribe on a started messenger whose cloud
\* answers every request, the ticks eventually bring the subscription state
\* back to NOT_SUBSCRIBED, unless the process has come down before.
C40_EventuallyNotSubscribed ==
    (twin.subscription_state = "UNSUBSCRIBE")
        ~> (twin.subscription_state = "NOT_SUBSCRIBED" \/ ~TwinAlive)
====
